---------------------------- MODULE Spec2Model ----------------------------
(***************************************************************************)
(* Model of the end-to-end encrypted messaging core of Project Prism      *)
(* (mobile/src/crypto/SignalProtocol.ts): identity and pre-key manager,   *)
(* X3DH-like session establishment, symmetric ratchet, session store and  *)
(* the keychain behind them.                                               *)
(*                                                                         *)
(* Cryptographic values are symbolic.  Random byte strings are atoms       *)
(* (integers that are never drawn twice); the primitives are modelled by   *)
(* what each code path computes on them:                                   *)
(*   - with tweetnacl loaded, Curve25519 / Ed25519 are collision-free      *)
(*     term constructors (scalarMult commutes on two honest key pairs);    *)
(*   - with WebCrypto available, HKDF and AES-GCM are collision-free term  *)
(*     constructors;                                                       *)
(*   - the fallback paths of the source are XOR arithmetic, modelled       *)
(*     exactly as sets of atoms under symmetric difference.                *)
(* Which paths run is a property of the build (the two flags naclLoaded   *)
(* and subtleAvailable), chosen once in Init.                              *)
(***************************************************************************)
EXTENDS Integers, Sequences, FiniteSets, TLC

VARIABLES
  naclLoaded,       \* SignalProtocol.ts:25-31  require('tweetnacl') succeeded
  subtleAvailable,  \* SignalProtocol.ts:21     crypto && crypto.subtle usable
  mem,              \* per service: the fields of SignalProtocolService
  keychain,         \* per service: the five entries of the Keychain
  fresh,            \* number of operations run that draw randomness
  wire,             \* per direction: ciphertexts sent and not yet delivered
  sent,             \* ghost: per direction, the plaintexts encrypted
  received,         \* ghost: per direction, what decryptMessage returned
  ratchetLog,       \* ghost: per session end, the keys of its chain so far
  handedOut,        \* ghost: one-time pre-keys a peer initiated a session with
  consumed,         \* ghost: per service, key ids passed to consumePreKey
  wiped,            \* ghost: per service, wipeAll completed, no account since
  preWipe,          \* ghost: per service, private keys held when it was wiped
  calls,            \* in-flight encryptMessage calls (asynchronous steps)
  web,              \* the web client: its fields, its store, its calls
  trial             \* arguments and results of the functions tried on their own

vars == <<naclLoaded, subtleAvailable, mem, keychain, fresh, wire,
          sent, received, ratchetLog, handedOut, consumed, wiped, preWipe,
          calls, web, trial>>

-----------------------------------------------------------------------------
(* Bounds of the model                                                      *)

MaxFresh == 4       \* operations drawing randomness in one behaviour
MaxTextLen == 2     \* code units in a plaintext
MaxMessages == 2    \* messages sent over one chain (ratchet specification)
MaxPoolOps == 84    \* consumePreKey calls (pre-key pool specification)
MaxCalls == 2       \* overlapping encryptMessage calls (asynchronous steps)
MaxInits == 2       \* initialize() calls of the web client
KeyLen == 2         \* bytes of an identity public key (32 in the code)
SafetyDigits == 5   \* digits of a safety number (30 in the code)

(* Program constants                                                        *)

PREKEY_BATCH_SIZE == 100
LOW_WATER_MARK == 20
SIGNED_PREKEY_ID == 1

Svc == {"A", "B"}            \* two installations of the app
Mallory == "M"               \* a peer that is not one of the installations
Peers == Svc \cup {Mallory}

-----------------------------------------------------------------------------
(* Byte strings                                                             *)

\* A term of the XOR algebra: one independent byte string.
XAtom(op, p, q) == [op |-> op, p |-> p, q |-> q]

\* a ^ b on byte strings that are XORs of independent atoms.
SymDiff(a, b) == (a \ b) \cup (b \ a)

\* A secret byte string: either an XOR of atoms (src empty) or the output
\* of a real HKDF over the concatenation src with the given info.
Plain(x) == [x |-> x, src |-> <<>>, info |-> "", part |-> 0]

PrivBytes(priv) == {XAtom("priv", priv, 0)}
PubBytes(pub) == {XAtom(pub.curve, pub.id, 0)}

NoPub == [curve |-> "none", id |-> 0]
NoKeyPair == [publicKey |-> NoPub, privateKey |-> 0]
NoSecret == Plain({})


-----------------------------------------------------------------------------
(* Crypto primitives (SignalProtocol.ts:111-432)                            *)

\* generateKeyPair: with tweetnacl the public key is the Curve25519 point of
\* the secret scalar; without it both halves are independent random bytes.
generateKeyPair(n) ==
  IF naclLoaded
    THEN [publicKey |-> [curve |-> "x25519", id |-> n], privateKey |-> n]
    ELSE [publicKey |-> [curve |-> "raw", id |-> n], privateKey |-> n]

\* The Ed25519 public key that nacl.sign.keyPair.fromSeed(seed) yields.
Ed25519PublicOf(seed) == [curve |-> "ed25519", id |-> seed]

\* sign: a 32-byte private key is used as the SEED of an Ed25519 key pair
\* (line 179); the fallback is a keyed XOR of the data.
sign(privateKey, data) ==
  IF naclLoaded
    THEN [alg |-> "ed25519", seed |-> privateKey, data |-> data]
    ELSE [alg |-> "xor", seed |-> privateKey, data |-> data]

\* Ed25519 verification proper: the signature was made over data by the
\* secret key whose Ed25519 public key is publicKey.
Ed25519Verify(publicKey, data, signature) ==
  /\ signature.alg = "ed25519"
  /\ signature.data = data
  /\ publicKey = Ed25519PublicOf(signature.seed)

\* verify: nacl.sign.detached.verify, or TRUE on the fallback path.
verify(publicKey, data, signature) ==
  IF naclLoaded THEN Ed25519Verify(publicKey, data, signature) ELSE TRUE

\* agree: nacl.scalarMult(privateKey, publicKey), or bytewise XOR.
agree(privateKey, publicKey) ==
  IF naclLoaded
    THEN IF publicKey.curve = "x25519"
           THEN Plain({XAtom("dh",
                             IF privateKey < publicKey.id
                               THEN privateKey ELSE publicKey.id,
                             IF privateKey < publicKey.id
                               THEN publicKey.id ELSE privateKey)})
           ELSE Plain({XAtom("sm", privateKey, publicKey.id)})
    ELSE Plain(SymDiff(PrivBytes(privateKey), PubBytes(publicKey)))

\* The 32 bytes input[i % input.length] of the fallback HKDF's first block,
\* input = info || 0x01: a constant that depends on info only.
Mask(info) == {XAtom(info, 0, 0)}

\* hkdf(ikm, zero salt, info, 32 * blocks): the sequence of 32-byte blocks
\* of the output.  ikm is the sequence of 32-byte strings concatenated.
\* WebCrypto: HKDF-SHA256, whose first 32 bytes do not depend on the length
\* asked for.  Fallback (lines 274-303): block 1 = ikm ^ salt ^ (info, 1),
\* block k+1 = ikm ^ salt ^ block k, over the first 32 bytes of ikm.
hkdf(ikm, info, blocks) ==
  IF subtleAvailable
    THEN [k \in 1..blocks |->
            [x |-> {}, src |-> ikm, info |-> info, part |-> k]]
    ELSE LET first == ikm[1].x
             block[k \in 1..blocks] ==
               IF k = 1 THEN SymDiff(first, Mask(info))
                        ELSE SymDiff(first, block[k - 1])
         IN  [k \in 1..blocks |-> Plain(block[k])]

\* encrypt: AES-256-GCM under key with a fresh 12-byte nonce, or XOR with
\* key and nonce.  The result is {ciphertext, nonce}.
encrypt(key, plaintext, nonce) ==
  [nonce |-> nonce,
   ciphertext |-> [aead |-> subtleAvailable, key |-> key, nonce |-> nonce,
                   pt |-> plaintext]]

Garbage == <<255>>

\* decrypt: AES-GCM open throws unless key, nonce and tag match; the XOR
\* fallback returns whatever the XOR gives.
decrypt(key, nonce, ciphertext) ==
  IF subtleAvailable
    THEN IF ciphertext.aead /\ ciphertext.key = key
            /\ ciphertext.nonce = nonce
           THEN [ok |-> TRUE, pt |-> ciphertext.pt]
           ELSE [ok |-> FALSE, pt |-> <<>>]
    ELSE IF ciphertext.key = key /\ ciphertext.nonce = nonce
           THEN [ok |-> TRUE, pt |-> ciphertext.pt]
           ELSE [ok |-> TRUE, pt |-> Garbage]

-----------------------------------------------------------------------------
(* Text conversion: new TextEncoder().encode(s), new TextDecoder().decode(b) *)
(* A string is a sequence of UTF-16 code units.                              *)

IsHighSurrogate(u) == u >= 55296 /\ u <= 56319     \* 0xD800 .. 0xDBFF
IsLowSurrogate(u) == u >= 56320 /\ u <= 57343      \* 0xDC00 .. 0xDFFF

RECURSIVE ToScalarValues(_)
\* The conversion of a string to scalar values that encode() starts with:
\* a surrogate pair is one code point, an unpaired surrogate becomes U+FFFD.
ToScalarValues(s) ==
  IF s = <<>> THEN <<>>
  ELSE IF IsHighSurrogate(s[1]) /\ Len(s) >= 2 /\ IsLowSurrogate(s[2])
    THEN <<65536 + (s[1] - 55296) * 1024 + (s[2] - 56320)>>
           \o ToScalarValues(SubSeq(s, 3, Len(s)))
  ELSE IF IsHighSurrogate(s[1]) \/ IsLowSurrogate(s[1])
    THEN <<65533>> \o ToScalarValues(Tail(s))
  ELSE <<s[1]>> \o ToScalarValues(Tail(s))

\* The UTF-8 bytes of one scalar value.
Utf8Bytes(c) ==
  IF c < 128 THEN <<c>>
  ELSE IF c < 2048 THEN <<192 + (c \div 64), 128 + (c % 64)>>
  ELSE IF c < 65536
    THEN <<224 + (c \div 4096), 128 + ((c \div 64) % 64), 128 + (c % 64)>>
  ELSE <<240 + (c \div 262144), 128 + ((c \div 4096) % 64),
         128 + ((c \div 64) % 64), 128 + (c % 64)>>

RECURSIVE Utf8Encode(_)
Utf8Encode(cs) ==
  IF cs = <<>> THEN <<>> ELSE Utf8Bytes(cs[1]) \o Utf8Encode(Tail(cs))

TextEncode(s) == Utf8Encode(ToScalarValues(s))

IsContinuation(b, i) == i <= Len(b) /\ b[i] >= 128 /\ b[i] <= 191

RECURSIVE Utf8Decode(_)
\* The scalar values of a byte string; a byte that starts no well-formed
\* sequence decodes to U+FFFD.
Utf8Decode(b) ==
  IF b = <<>> THEN <<>>
  ELSE IF b[1] < 128 THEN <<b[1]>> \o Utf8Decode(Tail(b))
  ELSE IF b[1] >= 194 /\ b[1] <= 223 /\ IsContinuation(b, 2)
    THEN <<(b[1] - 192) * 64 + (b[2] - 128)>>
           \o Utf8Decode(SubSeq(b, 3, Len(b)))
  ELSE IF b[1] >= 224 /\ b[1] <= 239 /\ IsContinuation(b, 2)
          /\ IsContinuation(b, 3)
    THEN <<(b[1] - 224) * 4096 + (b[2] - 128) * 64 + (b[3] - 128)>>
           \o Utf8Decode(SubSeq(b, 4, Len(b)))
  ELSE IF b[1] >= 240 /\ b[1] <= 244 /\ IsContinuation(b, 2)
          /\ IsContinuation(b, 3) /\ IsContinuation(b, 4)
    THEN <<(b[1] - 240) * 262144 + (b[2] - 128) * 4096
             + (b[3] - 128) * 64 + (b[4] - 128)>>
           \o Utf8Decode(SubSeq(b, 5, Len(b)))
  ELSE <<65533>> \o Utf8Decode(Tail(b))

RECURSIVE ToCodeUnits(_)
ToCodeUnits(cs) ==
  IF cs = <<>> THEN <<>>
  ELSE IF cs[1] >= 65536
    THEN <<55296 + ((cs[1] - 65536) \div 1024),
           56320 + ((cs[1] - 65536) % 1024)>> \o ToCodeUnits(Tail(cs))
  ELSE <<cs[1]>> \o ToCodeUnits(Tail(cs))

\* decode() of a TextDecoder made with no options (ignoreBOM false): a
\* leading U+FEFF is dropped.
TextDecode(b) ==
  LET cs == Utf8Decode(b)
  IN  ToCodeUnits(IF cs # <<>> /\ cs[1] = 65279 THEN Tail(cs) ELSE cs)

-----------------------------------------------------------------------------
(* State of one SignalProtocolService and of its Keychain                   *)

NoSignature == [alg |-> "none", seed |-> 0, data |-> NoPub]
NoSignedPreKey ==
  [keyId |-> 0, publicKey |-> NoPub, privateKey |-> 0,
   signature |-> NoSignature]
NoSessionState ==
  [remoteIdentityKey |-> NoPub, localIdentityKeyPair |-> NoKeyPair,
   rootKey |-> NoSecret, chainKey |-> NoSecret,
   messageNumber |-> -1, previousCounter |-> -1]
NoSessions == [p \in Peers |-> NoSessionState]
NoRegistrationId == -1

\* The fields of a SignalProtocolService as its constructor leaves them
\* (lines 477-482).  preKeys is the Map in insertion order.
Constructed ==
  [identityKeyPair |-> NoKeyPair, registrationId |-> NoRegistrationId,
   signedPreKey |-> NoSignedPreKey, preKeys |-> <<>>,
   sessions |-> NoSessions, initialized |-> FALSE]

\* An empty Keychain: getGenericPassword finds nothing under any service.
Absent(v) == [present |-> FALSE, value |-> v]
Stored(v) == [present |-> TRUE, value |-> v]
EmptyKeychain ==
  [identity_key_pair |-> Absent(NoKeyPair),
   registration_id |-> Absent(NoRegistrationId),
   signed_prekey |-> Absent(NoSignedPreKey),
   prekeys |-> Absent(<<>>),
   sessions |-> Absent(NoSessions)]

\* saveToKeychain(key, value): the JSON text written holds a copy of value
\* (byte arrays tagged and restored on load), replacing the entry.
saveToKeychain(kc, key, value) == [kc EXCEPT ![key] = Stored(value)]

\* loadFromKeychain(key): the stored value, or null when nothing is stored.
loadFromKeychain(kc, key) == kc[key].value

\* removeFromKeychain(key): resetGenericPassword.
removeFromKeychain(kc, key) == [kc EXCEPT ![key] = Absent(EmptyKeychain[key].value)]

\* The i-th random draw of the e-th operation that draws randomness.
Atom(e, i) == e * 1000 + i

KeyIds(pool) == {pool[j].keyId : j \in 1..Len(pool)}

SetMax(S) == CHOOSE m \in S : \A x \in S : x <= m

\* this.preKeys after generatePreKeys(startId, count): Map.set replaces the
\* value of a key already present where it stands and appends a new key.
PoolAfterGenerate(pool, startId, count, e, off) ==
  LET newKey(i) ==
        LET kp == generateKeyPair(Atom(e, off + i))
        IN  [keyId |-> startId + i, publicKey |-> kp.publicKey,
             privateKey |-> kp.privateKey]
      replaced ==
        [j \in 1..Len(pool) |->
           IF pool[j].keyId >= startId /\ pool[j].keyId < startId + count
             THEN newKey(pool[j].keyId - startId) ELSE pool[j]]
      had == KeyIds(pool)
      IsNew(k) == k.keyId \notin had
  IN  replaced \o SelectSeq([i \in 1..count |-> newKey(i - 1)], IsNew)

\* initialize(): nothing when already initialized; else the five loads.
initialize(m, kc) ==
  IF m.initialized THEN m
  ELSE [identityKeyPair |-> loadFromKeychain(kc, "identity_key_pair"),
        registrationId |-> loadFromKeychain(kc, "registration_id"),
        signedPreKey |-> loadFromKeychain(kc, "signed_prekey"),
        preKeys |-> IF kc.prekeys.present
                      THEN loadFromKeychain(kc, "prekeys") ELSE m.preKeys,
        sessions |-> IF kc.sessions.present
                       THEN loadFromKeychain(kc, "sessions") ELSE m.sessions,
        initialized |-> TRUE]

\* The registration id made of two random bytes (lines 539-541).
RegistrationIdOf(b) ==
  LET v == (b[1] * 256 + b[2]) % 16384
  IN  IF v = 0 THEN 1 ELSE v

NoBundle ==
  [registrationId |-> NoRegistrationId, deviceId |-> 0,
   identityKey |-> NoPub,
   signedPreKey |-> [keyId |-> 0, publicKey |-> NoPub,
                     signature |-> NoSignature],
   hasPreKey |-> FALSE, preKey |-> [keyId |-> 0, publicKey |-> NoPub]]

\* !this.registrationId
NoRegId(m) == m.registrationId = NoRegistrationId \/ m.registrationId = 0

\* getPreKeyBundle that ignores its argument.
getPreKeyBundleAnyKey(m, preKeyId) ==
  IF m.identityKeyPair = NoKeyPair \/ NoRegId(m)
     \/ m.signedPreKey = NoSignedPreKey
    THEN [error |-> "AccountNotInitialized", bundle |-> NoBundle]
    ELSE [error |-> "",
          bundle |->
            [registrationId |-> m.registrationId, deviceId |-> 1,
             identityKey |-> m.identityKeyPair.publicKey,
             signedPreKey |-> [keyId |-> m.signedPreKey.keyId,
                               publicKey |-> m.signedPreKey.publicKey,
                               signature |-> m.signedPreKey.signature],
             hasPreKey |-> Len(m.preKeys) > 0,
             preKey |-> IF Len(m.preKeys) > 0
                          THEN [keyId |-> m.preKeys[1].keyId,
                                publicKey |-> m.preKeys[1].publicKey]
                          ELSE [keyId |-> 0, publicKey |-> NoPub]]]

\* getPreKeyBundle(preKeyId); preKeyId 0 stands for an omitted argument
\* (both are falsy at line 612).
getPreKeyBundle(m, preKeyId) ==
  IF m.identityKeyPair = NoKeyPair \/ NoRegId(m)
     \/ m.signedPreKey = NoSignedPreKey
    THEN [error |-> "AccountNotInitialized", bundle |-> NoBundle]
    ELSE
      LET base ==
            [registrationId |-> m.registrationId, deviceId |-> 1,
             identityKey |-> m.identityKeyPair.publicKey,
             signedPreKey |-> [keyId |-> m.signedPreKey.keyId,
                               publicKey |-> m.signedPreKey.publicKey,
                               signature |-> m.signedPreKey.signature],
             hasPreKey |-> FALSE,
             preKey |-> [keyId |-> 0, publicKey |-> NoPub]]
          pick(k) ==
            [base EXCEPT !.hasPreKey = TRUE,
                         !.preKey = [keyId |-> k.keyId,
                                     publicKey |-> k.publicKey]]
      IN  [error |-> "",
           bundle |->
             IF preKeyId # 0 /\ preKeyId \in KeyIds(m.preKeys)
               THEN pick(CHOOSE k \in {m.preKeys[j] : j \in 1..Len(m.preKeys)} :
                           k.keyId = preKeyId)
             ELSE IF Len(m.preKeys) > 0 THEN pick(m.preKeys[1])
             ELSE base]

-----------------------------------------------------------------------------
(* The operations of SignalProtocolService, each as the state it leaves     *)
(* (m: the fields, kc: the Keychain, e: the epoch of its random draws)      *)

\* generatePreKeys(startId, count): the pool grows and is saved.
generatePreKeys(m, kc, startId, count, e, off) ==
  LET pool == PoolAfterGenerate(m.preKeys, startId, count, e, off)
  IN  [mem |-> [m EXCEPT !.preKeys = pool],
       kc |-> saveToKeychain(kc, "prekeys", pool)]

\* createAccount(): initialize, then a fresh identity, registration id,
\* signed pre-key and batch of one-time pre-keys, each saved.  No statement
\* of it throws: the error of the result is always empty.
createAccount(m, kc, e, regIdBytes) ==
  LET m0 == initialize(m, kc)
      identity == generateKeyPair(Atom(e, 1))
      regId == RegistrationIdOf(regIdBytes)
      spk == generateKeyPair(Atom(e, 2))
      signed == [keyId |-> SIGNED_PREKEY_ID, publicKey |-> spk.publicKey,
                 privateKey |-> spk.privateKey,
                 signature |-> sign(identity.privateKey, spk.publicKey)]
      m1 == [m0 EXCEPT !.identityKeyPair = identity,
                       !.registrationId = regId,
                       !.signedPreKey = signed]
      kc1 == saveToKeychain(
               saveToKeychain(
                 saveToKeychain(kc, "identity_key_pair", identity),
                 "registration_id", regId),
               "signed_prekey", signed)
      made == generatePreKeys(m1, kc1, 1, PREKEY_BATCH_SIZE, e, 3)
  IN  [mem |-> made.mem, kc |-> made.kc, error |-> ""]

\* The concatenation DH1 || DH2 || DH3 [|| DH4] of establishSession.
X3DHSecrets(identity, ephemeral, bundle) ==
  LET dh1 == agree(identity.privateKey, bundle.signedPreKey.publicKey)
      dh2 == agree(ephemeral.privateKey, bundle.identityKey)
      dh3 == agree(ephemeral.privateKey, bundle.signedPreKey.publicKey)
  IN  IF bundle.hasPreKey
        THEN <<dh1, dh2, dh3,
               agree(ephemeral.privateKey, bundle.preKey.publicKey)>>
        ELSE <<dh1, dh2, dh3>>

\* establishSession(recipientId, bundle).
establishSession(m, kc, recipientId, bundle, e) ==
  IF m.identityKeyPair = NoKeyPair
    THEN [mem |-> m, kc |-> kc, error |-> "AccountNotInitialized"]
  ELSE IF ~verify(bundle.identityKey, bundle.signedPreKey.publicKey,
                  bundle.signedPreKey.signature)
    THEN [mem |-> m, kc |-> kc, error |-> "InvalidSignature"]
  ELSE
    LET ephemeralKey == generateKeyPair(Atom(e, 1))
        derivedKeys ==
          hkdf(X3DHSecrets(m.identityKeyPair, ephemeralKey, bundle),
               "PRISM_X3DH_v1", 2)
        sessionState ==
          [remoteIdentityKey |-> bundle.identityKey,
           localIdentityKeyPair |-> m.identityKeyPair,
           rootKey |-> derivedKeys[1], chainKey |-> derivedKeys[2],
           messageNumber |-> 0, previousCounter |-> 0]
        sessions == [m.sessions EXCEPT ![recipientId] = sessionState]
    IN  [mem |-> [m EXCEPT !.sessions = sessions],
         kc |-> saveToKeychain(kc, "sessions", sessions), error |-> ""]

NoMessage ==
  [type |-> "", registrationId |-> NoRegistrationId, deviceId |-> 0,
   ciphertext |-> <<>>]

\* The message key and the next chain key of one ratchet step (lines
\* 719-724 and 767-772).
MessageKeyOf(chainKey) == hkdf(<<chainKey>>, "PRISM_MSG_KEY", 1)[1]
NextChainKey(chainKey) == hkdf(<<chainKey>>, "PRISM_CHAIN_KEY", 1)[1]

\* encryptMessage(recipientId, plaintext), run without interruption.
encryptMessage(m, kc, recipientId, plaintext, e) ==
  LET session == m.sessions[recipientId]
  IN
  IF session = NoSessionState
    THEN [mem |-> m, kc |-> kc, error |-> "NoSession",
          message |-> NoMessage, messageKey |-> NoSecret]
  ELSE IF NoRegId(m)
    THEN [mem |-> m, kc |-> kc, error |-> "AccountNotInitialized",
          message |-> NoMessage, messageKey |-> NoSecret]
  ELSE
    LET messageKey == MessageKeyOf(session.chainKey)
        ratcheted ==
          [session EXCEPT !.chainKey = NextChainKey(session.chainKey),
                          !.messageNumber = session.messageNumber + 1]
        sealed == encrypt(messageKey, TextEncode(plaintext), Atom(e, 1))
        fullCiphertext == <<sealed.nonce, sealed.ciphertext>>
        sessions == [m.sessions EXCEPT ![recipientId] = ratcheted]
    IN  [mem |-> [m EXCEPT !.sessions = sessions],
         kc |-> saveToKeychain(kc, "sessions", sessions), error |-> "",
         message |->
           [type |-> IF ratcheted.messageNumber = 1
                       THEN "prekey" ELSE "message",
            registrationId |-> m.registrationId, deviceId |-> 1,
            ciphertext |-> fullCiphertext],
         messageKey |-> messageKey]

\* decryptMessage that writes the session map to the Keychain before it
\* looks the session up.
decryptMessageSavingFirst(m, kc, senderId, message) ==
  IF m.sessions[senderId] = NoSessionState
    THEN [mem |-> m, kc |-> saveToKeychain(kc, "sessions", m.sessions),
          error |-> "NoSession", plaintext |-> <<>>, messageKey |-> NoSecret]
    ELSE [mem |-> m, kc |-> kc, error |-> "DecryptionFailed",
          plaintext |-> <<>>, messageKey |-> NoSecret]

\* decryptMessage(senderId, message).  The chain key of the session object
\* is replaced before decrypt() is called, so a failed decrypt leaves the
\* in-memory session ratcheted and the Keychain as it was.
\* Both throws for an absent session (lines 754-760, whatever message.type)
\* are the NoSession failure.
decryptMessage(m, kc, senderId, message) ==
  LET session == m.sessions[senderId]
  IN
  IF session = NoSessionState
    THEN [mem |-> m, kc |-> kc, error |-> "NoSession", plaintext |-> <<>>,
          messageKey |-> NoSecret]
  ELSE
    LET nonce == message.ciphertext[1]
        ciphertext == message.ciphertext[2]
        messageKey == MessageKeyOf(session.chainKey)
        ratcheted ==
          [session EXCEPT !.chainKey = NextChainKey(session.chainKey)]
        sessions == [m.sessions EXCEPT ![senderId] = ratcheted]
        opened == decrypt(messageKey, nonce, ciphertext)
    IN  IF ~opened.ok
          THEN [mem |-> [m EXCEPT !.sessions = sessions], kc |-> kc,
                error |-> "DecryptionFailed", plaintext |-> <<>>,
                messageKey |-> messageKey]
          ELSE [mem |-> [m EXCEPT !.sessions = sessions],
                kc |-> saveToKeychain(kc, "sessions", sessions),
                error |-> "", plaintext |-> TextDecode(opened.pt),
                messageKey |-> messageKey]

\* consumePreKey(keyId) that deletes and saves and never replenishes.
consumePreKeyOnly(m, kc, keyId, e) ==
  LET IsOther(k) == k.keyId # keyId
      pool == SelectSeq(m.preKeys, IsOther)
  IN  [mem |-> [m EXCEPT !.preKeys = pool],
       kc |-> saveToKeychain(kc, "prekeys", pool)]

\* consumePreKey(keyId): delete, save, and replenish below the low-water
\* mark with ids that start above the largest id still in the pool.
consumePreKey(m, kc, keyId, e) ==
  LET IsOther(k) == k.keyId # keyId
      pool == SelectSeq(m.preKeys, IsOther)
      m1 == [m EXCEPT !.preKeys = pool]
      kc1 == saveToKeychain(kc, "prekeys", pool)
  IN  IF Len(pool) < LOW_WATER_MARK
        THEN generatePreKeys(m1, kc1, SetMax(KeyIds(pool) \cup {0}) + 1,
                             PREKEY_BATCH_SIZE, e, 1)
        ELSE [mem |-> m1, kc |-> kc1]

\* wipeAll() without the removal of the sessions entry.
wipeAllKeepingSessions(m, kc) ==
  [mem |-> Constructed,
   kc |-> removeFromKeychain(
            removeFromKeychain(
              removeFromKeychain(
                removeFromKeychain(kc, "identity_key_pair"),
                "registration_id"),
              "signed_prekey"),
            "prekeys")]

\* wipeAll(): the fields are cleared, then the five entries removed.
wipeAll(m, kc) ==
  [mem |-> Constructed,
   kc |-> removeFromKeychain(
            removeFromKeychain(
              removeFromKeychain(
                removeFromKeychain(
                  removeFromKeychain(kc, "identity_key_pair"),
                  "registration_id"),
                "signed_prekey"),
              "prekeys"),
            "sessions")]

\* deleteSession(recipientId).
deleteSession(m, kc, recipientId) ==
  LET sessions == [m.sessions EXCEPT ![recipientId] = NoSessionState]
  IN  [mem |-> [m EXCEPT !.sessions = sessions],
       kc |-> saveToKeychain(kc, "sessions", sessions)]

-----------------------------------------------------------------------------
(* getSafetyNumber (SignalProtocol.ts:789-835)                              *)

\* n.toString() of a non-negative integer: its decimal digits.
RECURSIVE ToDecimal(_)
ToDecimal(n) ==
  IF n < 10 THEN <<n>> ELSE Append(ToDecimal(n \div 10), n % 10)

\* parseInt(text, 10) of a string of decimal digits.
RECURSIVE ParseInt(_)
ParseInt(digits) ==
  IF Len(digits) = 0 THEN 0
  ELSE 10 * ParseInt(SubSeq(digits, 1, Len(digits) - 1))
         + digits[Len(digits)]

\* The index of the first byte in which a and b differ, 0 when there is none
\* (the loop of lines 800-810 leaves first and second unassigned).
FirstDifference(a, b) ==
  LET D == {i \in 1..Len(a) : a[i] # b[i]}
  IN  IF D = {} THEN 0 ELSE CHOOSE i \in D : \A j \in D : i <= j

\* The two keys ordered by their first bytes alone.
CombinedByFirstByte(localKey, remoteKey) ==
  IF localKey[1] > remoteKey[1]
    THEN remoteKey \o localKey
    ELSE localKey \o remoteKey

\* Lines 799-817: the two keys, the one with the smaller byte at the first
\* difference first; the local key first when they are equal.
Combined(localKey, remoteKey) ==
  LET i == FirstDifference(localKey, remoteKey)
  IN  IF i # 0 /\ localKey[i] > remoteKey[i]
        THEN remoteKey \o localKey
        ELSE localKey \o remoteKey

RECURSIVE Power10(_)
Power10(n) == IF n = 0 THEN 1 ELSE 10 * Power10(n - 1)

\* Lines 821-824: hash = (hash * 256 + byte) mod 10^digits over the bytes.
RECURSIVE Fingerprint(_, _)
Fingerprint(bytes, hash) ==
  IF Len(bytes) = 0 THEN hash
  ELSE Fingerprint(Tail(bytes),
                   (hash * 256 + Head(bytes)) % Power10(SafetyDigits))

\* Line 827: hash.toString().padStart(width, '0'), as a digit sequence.
PadStart(digits, width) ==
  IF Len(digits) >= width THEN digits
  ELSE [i \in 1..(width - Len(digits)) |-> 0] \o digits

\* Lines 828-833: the digits in groups of five.
RECURSIVE GroupsOfFive(_)
GroupsOfFive(digits) ==
  IF Len(digits) = 0 THEN <<>>
  ELSE IF Len(digits) <= 5 THEN <<digits>>
  ELSE <<SubSeq(digits, 1, 5)>> \o GroupsOfFive(SubSeq(digits, 6, Len(digits)))

\* getSafetyNumber(recipientId) of a service whose identity public key is
\* localKey and whose session for the recipient holds remoteKey; <<>> is
\* the null returned without a session or an identity.
getSafetyNumber(hasSession, hasIdentity, localKey, remoteKey) ==
  IF ~hasSession \/ ~hasIdentity THEN <<>>
  ELSE GroupsOfFive(
         PadStart(ToDecimal(Fingerprint(Combined(localKey, remoteKey), 0)),
                  SafetyDigits))

\* Nothing tried.
NoTrial == [op |-> "", args |-> <<>>, results |-> <<>>]

-----------------------------------------------------------------------------
(* The web client (part_003, class SignalProtocol) and its secure store    *)

\* The values Math.floor(Math.random() * 16384) can take: the ends of the
\* range and the value next to zero.
RandomDraws == {0, 1, 16383}

\* nacl.sign.keyPair(): an Ed25519 key pair.
WebKeyPair(n) == [publicKey |-> Ed25519PublicOf(n), privateKey |-> n]

\* The object store 'secure': nothing under either key.
EmptyStore == [identity |-> Absent(NoKeyPair), userHash |-> Absent(<<>>)]

\* Ghost: the fields and the store as the first initialize() to return
\* left them.
NoSnapshot ==
  [taken |-> FALSE, identityKeyPair |-> NoKeyPair, registrationId |-> 0,
   store |-> EmptyStore]

\* The fields of a new SignalProtocol, an empty store, no call in flight.
\* generated counts the identities made; explicit says that generateIdentity
\* was called by the application itself.
WebConstructed ==
  [identityKeyPair |-> NoKeyPair, registrationId |-> 0, store |-> EmptyStore,
   sessions |-> NoSessions,
   inits |-> <<>>, generated |-> 0, explicit |-> FALSE, first |-> NoSnapshot]

-----------------------------------------------------------------------------
(* Inputs                                                                   *)

Dirs == Svc \X Peers

\* The two random bytes of a registration id.
RegIdDraws == {<<255, 255>>}

\* Plaintexts of the protocol specification: ordinary text.
Plaintexts == {<<104, 105>>}

\* A signature that was not made by any key: a tampered bundle carries it.
ForgedSignature == [alg |-> "forged", seed |-> 0, data |-> NoPub]

Tampered(bundle) ==
  [bundle EXCEPT !.signedPreKey.signature = ForgedSignature]

WithoutPreKey(bundle) ==
  [bundle EXCEPT !.hasPreKey = FALSE,
                 !.preKey = [keyId |-> 0, publicKey |-> NoPub]]

\* The bundle of a peer outside the model: an Ed25519 identity key that
\* signed a Curve25519 pre-key, with no one-time pre-key.
MalloryBundle ==
  [registrationId |-> 7, deviceId |-> 1,
   identityKey |-> Ed25519PublicOf(-1),
   signedPreKey |-> [keyId |-> 1,
                     publicKey |-> [curve |-> "x25519", id |-> -2],
                     signature |-> [alg |-> "ed25519", seed |-> -1,
                                    data |-> [curve |-> "x25519", id |-> -2]]],
   hasPreKey |-> FALSE, preKey |-> [keyId |-> 0, publicKey |-> NoPub]]

\* The bundles a caller can pass for peer p: what p's getPreKeyBundle
\* returns (with or without its one-time pre-key, as the two call sites
\* do), the same with the signature replaced, or Mallory's.
BundlesOf(p) ==
  IF p = Mallory THEN {MalloryBundle, Tampered(MalloryBundle)}
  ELSE LET got == getPreKeyBundle(mem[p], 0)
       IN  IF got.error # "" THEN {}
           ELSE {got.bundle, WithoutPreKey(got.bundle),
                 Tampered(got.bundle)}

-----------------------------------------------------------------------------
(* Ghost state                                                              *)

NoLog == [init |-> NoSecret, steps |-> 0, held |-> {}, used |-> {}]

LogStep(log, messageKey, chainKey) ==
  [log EXCEPT !.steps = log.steps + 1,
              !.held = log.held \cup {chainKey},
              !.used = log.used \cup {messageKey}]

FailedText == <<-1>>

\* The private keys a service holds, in its fields or in its Keychain.
PrivateKeysIn(m) ==
  {m.identityKeyPair.privateKey, m.signedPreKey.privateKey}
    \cup {m.preKeys[j].privateKey : j \in 1..Len(m.preKeys)}
    \cup {m.sessions[p].localIdentityKeyPair.privateKey : p \in Peers}

PrivateKeysOf(s) ==
  (PrivateKeysIn(mem[s])
     \cup PrivateKeysIn([identityKeyPair |-> keychain[s].identity_key_pair.value,
                         signedPreKey |-> keychain[s].signed_prekey.value,
                         preKeys |-> keychain[s].prekeys.value,
                         sessions |-> keychain[s].sessions.value])) \ {0}

\* Nothing has run: every service and the web client are as constructed,
\* their stores are empty, no message is in flight.
Idle ==
  /\ mem = [s \in Svc |-> Constructed]
  /\ keychain = [s \in Svc |-> EmptyKeychain]
  /\ fresh = 0
  /\ wire = [d \in Dirs |-> <<>>]
  /\ sent = [d \in Dirs |-> <<>>]
  /\ received = [d \in Dirs |-> <<>>]
  /\ ratchetLog = [d \in Dirs |-> NoLog]
  /\ handedOut = {}
  /\ consumed = [s \in Svc |-> {}]
  /\ wiped = [s \in Svc |-> FALSE]
  /\ preWipe = [s \in Svc |-> {}]
  /\ calls = <<>>
  /\ web = WebConstructed

Init ==
  /\ naclLoaded \in BOOLEAN
  /\ subtleAvailable \in BOOLEAN
  /\ Idle
  /\ trial = NoTrial

build == <<naclLoaded, subtleAvailable>>
messaging == <<wire, sent, received, ratchetLog>>
pools == <<handedOut, consumed>>
wipes == <<wiped, preWipe>>

-----------------------------------------------------------------------------
(* Actions: one call of an operation, run to completion                     *)

\* The process of service s is restarted: its fields are constructed anew.
Restart(s) ==
  /\ mem[s] # Constructed
  /\ mem' = [mem EXCEPT ![s] = Constructed]
  /\ UNCHANGED <<build, keychain, fresh, messaging, pools, wipes, calls, web, trial>>

Initialize(s) ==
  /\ ~mem[s].initialized
  /\ mem' = [mem EXCEPT ![s] = initialize(mem[s], keychain[s])]
  /\ UNCHANGED <<build, keychain, fresh, messaging, pools, wipes, calls, web, trial>>

CreateAccount(s) ==
  /\ fresh < MaxFresh
  /\ \E b \in RegIdDraws :
       LET r == createAccount(mem[s], keychain[s], fresh + 1, b)
       IN  /\ mem' = [mem EXCEPT ![s] = r.mem]
           /\ keychain' = [keychain EXCEPT ![s] = r.kc]
  /\ fresh' = fresh + 1
  /\ wiped' = [wiped EXCEPT ![s] = FALSE]
  /\ UNCHANGED <<build, messaging, pools, preWipe, calls, web, trial>>

EstablishSession(s, p) ==
  /\ fresh < MaxFresh
  /\ p # s
  /\ \E bundle \in BundlesOf(p) :
       LET r == establishSession(mem[s], keychain[s], p, bundle, fresh + 1)
       IN  /\ mem' = [mem EXCEPT ![s] = r.mem]
           /\ keychain' = [keychain EXCEPT ![s] = r.kc]
           /\ ratchetLog' =
                IF r.error = ""
                  THEN [ratchetLog EXCEPT ![<<s, p>>] =
                          [init |-> r.mem.sessions[p].chainKey, steps |-> 0,
                           held |-> {r.mem.sessions[p].chainKey},
                           used |-> {}]]
                  ELSE ratchetLog
           /\ handedOut' =
                IF r.error = "" /\ bundle.hasPreKey
                  THEN handedOut \cup
                         {[owner |-> p, keyId |-> bundle.preKey.keyId,
                           publicKey |-> bundle.preKey.publicKey]}
                  ELSE handedOut
           /\ wiped' = IF r.error = "" THEN [wiped EXCEPT ![s] = FALSE]
                                       ELSE wiped
           /\ fresh' = IF r.error = "" THEN fresh + 1 ELSE fresh
  /\ UNCHANGED <<build, wire, sent, received, consumed, preWipe, calls, web, trial>>

\* encryptMessage(p, text) by s for a text among texts, while fewer than
\* bound operations have drawn randomness.
EncryptText(s, p, texts, bound) ==
  /\ fresh < bound
  /\ p # s
  /\ \E text \in texts :
       LET r == encryptMessage(mem[s], keychain[s], p, text, fresh + 1)
       IN  /\ mem' = [mem EXCEPT ![s] = r.mem]
           /\ keychain' = [keychain EXCEPT ![s] = r.kc]
           /\ IF r.error = ""
                THEN /\ wire' = [wire EXCEPT ![<<s, p>>] = Append(@, r.message)]
                     /\ sent' = [sent EXCEPT ![<<s, p>>] = Append(@, text)]
                     /\ ratchetLog' =
                          [ratchetLog EXCEPT ![<<s, p>>] =
                             LogStep(@, r.messageKey,
                                     r.mem.sessions[p].chainKey)]
                ELSE UNCHANGED <<wire, sent, ratchetLog>>
           /\ fresh' = IF r.error = "" THEN fresh + 1 ELSE fresh
  /\ UNCHANGED <<build, received, pools, wipes, calls, web, trial>>

EncryptMessage(s, p) == EncryptText(s, p, Plaintexts, MaxFresh)

\* Service s decrypts the oldest undelivered message that p sent to it.
DecryptMessage(s, p) ==
  /\ p \in Svc /\ p # s
  /\ wire[<<p, s>>] # <<>>
  /\ LET r == decryptMessage(mem[s], keychain[s], p, Head(wire[<<p, s>>]))
     IN  /\ mem' = [mem EXCEPT ![s] = r.mem]
         /\ keychain' = [keychain EXCEPT ![s] = r.kc]
         /\ received' = [received EXCEPT ![<<p, s>>] =
              Append(@, IF r.error = "" THEN r.plaintext ELSE FailedText)]
         /\ ratchetLog' =
              IF r.error = "NoSession" THEN ratchetLog
              ELSE [ratchetLog EXCEPT ![<<s, p>>] =
                      LogStep(@, r.messageKey, r.mem.sessions[p].chainKey)]
  /\ wire' = [wire EXCEPT ![<<p, s>>] = Tail(@)]
  /\ UNCHANGED <<build, fresh, sent, pools, wipes, calls, web, trial>>

\* The ends of the pool: the key getPreKeyBundle hands out and the newest.
PoolEnds(s) ==
  IF Len(mem[s].preKeys) = 0 THEN {}
  ELSE {mem[s].preKeys[1].keyId, SetMax(KeyIds(mem[s].preKeys))}

\* The key ids a caller passes to consumePreKey: the one getPreKeyBundle
\* hands out, the largest in the pool, or one it has passed before.
ConsumeChoices(s) == PoolEnds(s) \cup consumed[s]

ConsumePreKeyBounded(s, keyIds, bound) ==
  /\ fresh < bound
  /\ \E keyId \in keyIds :
       LET r == consumePreKey(mem[s], keychain[s], keyId, fresh + 1)
       IN  /\ mem' = [mem EXCEPT ![s] = r.mem]
           /\ keychain' = [keychain EXCEPT ![s] = r.kc]
           /\ consumed' = [consumed EXCEPT ![s] = @ \cup {keyId}]
           /\ fresh' = fresh + 1
  /\ UNCHANGED <<build, messaging, handedOut, wipes, calls, web, trial>>

ConsumePreKey(s) == ConsumePreKeyBounded(s, ConsumeChoices(s), MaxFresh)

WipeAll(s) ==
  /\ ~wiped[s]
  /\ LET r == wipeAll(mem[s], keychain[s])
     IN  /\ mem' = [mem EXCEPT ![s] = r.mem]
         /\ keychain' = [keychain EXCEPT ![s] = r.kc]
  /\ wiped' = [wiped EXCEPT ![s] = TRUE]
  /\ preWipe' = [preWipe EXCEPT ![s] = PrivateKeysOf(s)]
  /\ UNCHANGED <<build, fresh, messaging, pools, calls, web, trial>>

DeleteSession(s, p) ==
  /\ p # s
  /\ mem[s].sessions[p] # NoSessionState
  /\ LET r == deleteSession(mem[s], keychain[s], p)
     IN  /\ mem' = [mem EXCEPT ![s] = r.mem]
         /\ keychain' = [keychain EXCEPT ![s] = r.kc]
  /\ UNCHANGED <<build, fresh, messaging, pools, wipes, calls, web, trial>>

Next ==
  \/ Restart("A")
  \/ Initialize("A")
  \/ \E s \in Svc : CreateAccount(s)
  \/ \E s \in Svc, p \in Peers : EstablishSession(s, p)
  \/ \E s \in Svc, p \in Peers : EncryptMessage(s, p)
  \/ \E s \in Svc, p \in Peers : DecryptMessage(s, p)
  \/ ConsumePreKey("A")
  \/ WipeAll("A")
  \/ \E p \in Peers : DeleteSession("A", p)

Spec == Init /\ [][Next]_vars

-----------------------------------------------------------------------------
(* The steady-state ratchet on its own: A and B hold sessions for each     *)
(* other that start with the same chain key; A sends, B receives in order. *)

\* Code units a plaintext is made of: 'a', U+FEFF, and the two halves of
\* the surrogate pair of U+1F600.
CodeUnits == {97, 65279, 55357, 56832}

Texts ==
  UNION {[1..n -> CodeUnits] : n \in 1..MaxTextLen}

\* Chain keys two sessions can share: 32 random bytes, or the second half
\* of an X3DH derivation over a shared secret.
SharedChainKeys ==
  {Plain({XAtom("priv", -4, 0)}),
   hkdf(<<Plain({XAtom("priv", -5, 0)})>>, "PRISM_X3DH_v1", 2)[2]}

PairedSession(local, remotePublic, chainKey) ==
  [remoteIdentityKey |-> remotePublic, localIdentityKeyPair |-> local,
   rootKey |-> Plain({XAtom("priv", -3, 0)}), chainKey |-> chainKey,
   messageNumber |-> 0, previousCounter |-> 0]

InitRatchet ==
  /\ naclLoaded \in BOOLEAN
  /\ subtleAvailable \in BOOLEAN
  /\ \E chainKey \in SharedChainKeys :
       LET a == createAccount(Constructed, EmptyKeychain, 1, <<255, 255>>)
           b == createAccount(Constructed, EmptyKeychain, 2, <<255, 255>>)
           sa == [NoSessions EXCEPT !["B"] =
                    PairedSession(a.mem.identityKeyPair,
                                  b.mem.identityKeyPair.publicKey, chainKey)]
           sb == [NoSessions EXCEPT !["A"] =
                    PairedSession(b.mem.identityKeyPair,
                                  a.mem.identityKeyPair.publicKey, chainKey)]
           log == [init |-> chainKey, steps |-> 0, held |-> {chainKey},
                   used |-> {}]
       IN  /\ mem = [s \in Svc |->
                       IF s = "A" THEN [a.mem EXCEPT !.sessions = sa]
                                  ELSE [b.mem EXCEPT !.sessions = sb]]
           /\ keychain = [s \in Svc |->
                            IF s = "A"
                              THEN saveToKeychain(a.kc, "sessions", sa)
                              ELSE saveToKeychain(b.kc, "sessions", sb)]
           /\ ratchetLog = [d \in Dirs |->
                              IF d \in {<<"A", "B">>, <<"B", "A">>}
                                THEN log ELSE NoLog]
  /\ fresh = 2
  /\ wire = [d \in Dirs |-> <<>>]
  /\ sent = [d \in Dirs |-> <<>>]
  /\ received = [d \in Dirs |-> <<>>]
  /\ handedOut = {}
  /\ consumed = [s \in Svc |-> {}]
  /\ wiped = [s \in Svc |-> FALSE]
  /\ preWipe = [s \in Svc |-> {}]
  /\ calls = <<>>
  /\ web = WebConstructed
  /\ trial = NoTrial

NextRatchet ==
  \/ EncryptText("A", "B", Texts, 2 + MaxMessages)
  \/ DecryptMessage("B", "A")

SpecRatchet == InitRatchet /\ [][NextRatchet]_vars

-----------------------------------------------------------------------------
(* The one-time pre-key pool on its own: an account is created, then its   *)
(* pre-keys are consumed.                                                   *)

InitPool ==
  /\ naclLoaded \in BOOLEAN
  /\ subtleAvailable \in BOOLEAN
  /\ LET a == createAccount(Constructed, EmptyKeychain, 1, <<255, 255>>)
     IN  /\ mem = [s \in Svc |-> IF s = "A" THEN a.mem ELSE Constructed]
         /\ keychain = [s \in Svc |-> IF s = "A" THEN a.kc ELSE EmptyKeychain]
  /\ fresh = 1
  /\ wire = [d \in Dirs |-> <<>>]
  /\ sent = [d \in Dirs |-> <<>>]
  /\ received = [d \in Dirs |-> <<>>]
  /\ ratchetLog = [d \in Dirs |-> NoLog]
  /\ handedOut = {}
  /\ consumed = [s \in Svc |-> {}]
  /\ wiped = [s \in Svc |-> FALSE]
  /\ preWipe = [s \in Svc |-> {}]
  /\ calls = <<>>
  /\ web = WebConstructed
  /\ trial = NoTrial

NextPool == ConsumePreKeyBounded("A", PoolEnds("A"), MaxPoolOps)

SpecPool == InitPool /\ [][NextPool]_vars

-----------------------------------------------------------------------------
(* Claims                                                                   *)

\* C1: sessions that start with the same chain key, messages encrypted by A
\* and decrypted by B in the same order: every decryptMessage returns the
\* plaintext that was encrypted, and once every message sent has been
\* decrypted the two chain keys are equal again.
C1_RoundTrip ==
  LET d == <<"A", "B">>
  IN  /\ Len(received[d]) <= Len(sent[d])
      /\ \A i \in 1..Len(received[d]) : received[d][i] = sent[d][i]
      /\ wire[d] = <<>> =>
           mem["A"].sessions["B"].chainKey = mem["B"].sessions["A"].chainKey

\* C2: after N >= 1 ratchet steps the chain key of a session differs from
\* the chain key it started with, and no message key the session used
\* equals a chain key the session ever held.
C2_ChainMovesOn ==
  \A d \in {<<"A", "B">>, <<"B", "A">>} :
    LET log == ratchetLog[d]
    IN  /\ log.steps >= 1 => mem[d[1]].sessions[d[2]].chainKey # log.init
        /\ log.used \cap log.held = {}

\* C9: a key id passed to consumePreKey designates no pool entry afterwards,
\* whatever consumePreKey calls (and the replenishment they trigger) follow.
C9_ConsumedIdStaysOut ==
  \A s \in Svc : consumed[s] \cap KeyIds(mem[s].preKeys) = {}

\* C3: establishSession with a bundle whose signedPreKey.signature does not
\* verify against bundle.identityKey over signedPreKey.publicKey fails with
\* InvalidSignature and leaves the session map, in memory and in the
\* Keychain, exactly as it was.
C3_BadSignatureRejected ==
  \A s \in Svc : \A p \in Peers \ {s} : \A bundle \in BundlesOf(p) :
    (/\ mem[s].identityKeyPair # NoKeyPair
     /\ ~Ed25519Verify(bundle.identityKey, bundle.signedPreKey.publicKey,
                       bundle.signedPreKey.signature))
      => LET r == establishSession(mem[s], keychain[s], p, bundle, fresh + 1)
         IN  /\ r.error = "InvalidSignature"
             /\ r.mem.sessions = mem[s].sessions
             /\ r.kc.sessions = keychain[s].sessions

\* C4: the bundle that getPreKeyBundle returns for an account made by
\* createAccount is accepted by establishSession of any other account: the
\* call succeeds and stores a session.
C4_HonestBundleAccepted ==
  \A s \in Svc : \A p \in Svc \ {s} :
    LET got == getPreKeyBundle(mem[p], 0)
    IN  (mem[s].identityKeyPair # NoKeyPair /\ got.error = "")
          => LET r == establishSession(mem[s], keychain[s], p, got.bundle,
                                       fresh + 1)
             IN  /\ r.error = ""
                 /\ r.mem.sessions[p] # NoSessionState
                 /\ r.kc.sessions = Stored(r.mem.sessions)

\* Both A and B hold an unused session made from the other's current bundle.
BothEstablished ==
  /\ mem["A"].sessions["B"] # NoSessionState
  /\ mem["B"].sessions["A"] # NoSessionState
  /\ mem["A"].sessions["B"].remoteIdentityKey
       = mem["B"].identityKeyPair.publicKey
  /\ mem["B"].sessions["A"].remoteIdentityKey
       = mem["A"].identityKeyPair.publicKey
  /\ mem["A"].sessions["B"].localIdentityKeyPair = mem["A"].identityKeyPair
  /\ mem["B"].sessions["A"].localIdentityKeyPair = mem["B"].identityKeyPair
  /\ ratchetLog[<<"A", "B">>].steps = 0
  /\ ratchetLog[<<"B", "A">>].steps = 0

\* C5: when A and B have each called establishSession with the other's
\* bundle, the two sessions hold the same rootKey and chainKey, and the
\* first message A encrypts for B is decrypted by B to the plaintext.
C5_BilateralKeysMatch ==
  BothEstablished =>
    /\ mem["A"].sessions["B"].rootKey = mem["B"].sessions["A"].rootKey
    /\ mem["A"].sessions["B"].chainKey = mem["B"].sessions["A"].chainKey
    /\ \A text \in Plaintexts :
         LET e == encryptMessage(mem["A"], keychain["A"], "B", text,
                                 fresh + 1)
             d == decryptMessage(mem["B"], keychain["B"], "A", e.message)
         IN  e.error = "" /\ d.error = "" /\ d.plaintext = text

\* What holds of service s after its wipeAll: encryptMessage and
\* decryptMessage fail with NoSession, getPreKeyBundle fails with
\* AccountNotInitialized, initialize() (in this process or after a restart)
\* loads no identity, registration id, signed pre-key or session, and no
\* private key that s held before the wipe is in its fields or its Keychain.
WipedClean(s) ==
  /\ \A p \in Peers \ {s} : \A text \in Plaintexts :
       encryptMessage(mem[s], keychain[s], p, text, fresh + 1).error
         = "NoSession"
  /\ \A p \in Svc \ {s} : \A i \in 1..Len(wire[<<p, s>>]) :
       decryptMessage(mem[s], keychain[s], p, wire[<<p, s>>][i]).error
         = "NoSession"
  /\ getPreKeyBundle(mem[s], 0).error = "AccountNotInitialized"
  /\ \A m \in {mem[s], Constructed} :
       LET loaded == initialize(m, keychain[s])
       IN  /\ loaded.identityKeyPair = NoKeyPair
           /\ loaded.registrationId = NoRegistrationId
           /\ loaded.signedPreKey = NoSignedPreKey
           /\ loaded.sessions = NoSessions
  /\ PrivateKeysOf(s) \cap preWipe[s] = {}

C10_PreKeyUsedOnce ==
  \A h \in handedOut :
    h.owner \in Svc =>
      /\ \A j \in 1..Len(mem[h.owner].preKeys) :
           mem[h.owner].preKeys[j].publicKey # h.publicKey
      /\ getPreKeyBundle(mem[h.owner], 0).bundle.preKey.publicKey
           # h.publicKey

-----------------------------------------------------------------------------
(* encryptMessage as the event loop runs it: the call is suspended at each *)
(* await (lines 720, 724, 729, 738) and other calls run in between.  The   *)
(* session object is shared by every call that got it from the map.        *)

NoCall ==
  [svc |-> "", peer |-> "", text |-> <<>>, pc |-> "", chainRead |-> NoSecret,
   derivedFrom |-> NoSecret, messageKey |-> NoSecret,
   sealed |-> encrypt(NoSecret, <<>>, 0), observed |-> 0, type |-> "",
   session |-> NoSessionState]

\* The session object of the calls of s for p as call i has just changed it:
\* every call that got the object from the map sees the change.
SeenByAll(cs, i, session) ==
  [k \in 1..Len(cs) |->
     IF cs[k].svc = cs[i].svc /\ cs[k].peer = cs[i].peer
          /\ cs[k].session # NoSessionState
       THEN [cs[k] EXCEPT !.session = session] ELSE cs[k]]

\* Lines 709-720: the session is looked up, the guards pass, and hkdf is
\* called with the chain key as it is now.
BeginEncrypt(s, p) ==
  /\ Len(calls) < MaxCalls
  /\ mem[s].sessions[p] # NoSessionState
  /\ ~NoRegId(mem[s])
  /\ \E text \in Plaintexts :
       calls' = Append(calls,
                  [NoCall EXCEPT !.svc = s, !.peer = p, !.text = text,
                                 !.pc = "messageKey",
                                 !.session = mem[s].sessions[p],
                                 !.chainRead = mem[s].sessions[p].chainKey])
  /\ UNCHANGED <<build, mem, keychain, fresh, messaging, pools, wipes, web, trial>>

\* Lines 720-724: the message key arrives; hkdf is called again with the
\* chain key as it is now.
AwaitMessageKey(i) ==
  /\ i \in 1..Len(calls)
  /\ calls[i].pc = "messageKey"
  /\ calls' =
       [calls EXCEPT ![i] =
          [@ EXCEPT !.pc = "chainKey",
                    !.derivedFrom = calls[i].chainRead,
                    !.messageKey = MessageKeyOf(calls[i].chainRead),
                    !.chainRead = calls[i].session.chainKey]]
  /\ UNCHANGED <<build, mem, keychain, fresh, messaging, pools, wipes, web, trial>>

\* Lines 724-729: the next chain key arrives and is assigned, the message
\* number is incremented, and encrypt draws its nonce and starts sealing.
AwaitChainKey(i) ==
  /\ i \in 1..Len(calls)
  /\ calls[i].pc = "chainKey"
  /\ LET c == calls[i]
         session == [c.session EXCEPT
                       !.chainKey = NextChainKey(c.chainRead),
                       !.messageNumber = c.session.messageNumber + 1]
     IN  /\ mem' = IF mem[c.svc].sessions[c.peer] = NoSessionState
                     THEN mem
                     ELSE [mem EXCEPT ![c.svc].sessions[c.peer] = session]
         /\ calls' =
              SeenByAll([calls EXCEPT ![i] =
                           [@ EXCEPT !.pc = "sealed",
                                     !.sealed = encrypt(c.messageKey,
                                                        TextEncode(c.text),
                                                        Atom(fresh + 1, 1))]],
                        i, session)
  /\ fresh' = fresh + 1
  /\ UNCHANGED <<build, keychain, messaging, pools, wipes, web, trial>>

\* Lines 729-738: the ciphertext arrives; the session object the call holds
\* is set in the map (where it already is unless the map was cleared) and
\* the map as it is now is written to the Keychain.
AwaitEncrypt(i) ==
  /\ i \in 1..Len(calls)
  /\ calls[i].pc = "sealed"
  /\ LET c == calls[i]
         sessions == [mem[c.svc].sessions EXCEPT ![c.peer] = c.session]
     IN  /\ mem' = [mem EXCEPT ![c.svc].sessions = sessions]
         /\ keychain' = [keychain EXCEPT ![c.svc] =
                           saveToKeychain(@, "sessions", sessions)]
  /\ calls' = [calls EXCEPT ![i] = [@ EXCEPT !.pc = "saved"]]
  /\ UNCHANGED <<build, fresh, messaging, pools, wipes, web, trial>>

\* Lines 738-745: the write is done; the message is returned with the type
\* read from the message number as it is now.
AwaitSave(i) ==
  /\ i \in 1..Len(calls)
  /\ calls[i].pc = "saved"
  /\ LET c == calls[i]
         number == c.session.messageNumber
         type == IF number = 1 THEN "prekey" ELSE "message"
     IN  /\ calls' = [calls EXCEPT ![i] =
                        [@ EXCEPT !.pc = "returned", !.observed = number,
                                  !.type = type]]
         /\ wire' = [wire EXCEPT ![<<c.svc, c.peer>>] =
                       Append(@, [type |-> type,
                                  registrationId |->
                                    mem[c.svc].registrationId,
                                  deviceId |-> 1,
                                  ciphertext |->
                                    <<c.sealed.nonce, c.sealed.ciphertext>>])]
         /\ sent' = [sent EXCEPT ![<<c.svc, c.peer>>] = Append(@, c.text)]
  /\ UNCHANGED <<build, mem, keychain, fresh, received, ratchetLog, pools,
                 wipes, web, trial>>

InitAsync == InitRatchet

NextAsync ==
  \/ BeginEncrypt("A", "B")
  \/ \E i \in 1..MaxCalls : AwaitMessageKey(i)
  \/ \E i \in 1..MaxCalls : AwaitChainKey(i)
  \/ \E i \in 1..MaxCalls : AwaitEncrypt(i)
  \/ \E i \in 1..MaxCalls : AwaitSave(i)

SpecAsync == InitAsync /\ [][NextAsync]_vars

\* C6: whatever the interleaving of the asynchronous steps of encryptMessage
\* calls for one peer, no two calls seal their plaintext under the same
\* message key, and no two derive their message key from the same chain key.
C6_NoMessageKeyReuse ==
  \A i, j \in 1..Len(calls) :
    (/\ i # j
     /\ calls[i].peer = calls[j].peer
     /\ calls[i].pc \in {"sealed", "saved", "returned"}
     /\ calls[j].pc \in {"sealed", "saved", "returned"})
      => /\ calls[i].messageKey # calls[j].messageKey
         /\ calls[i].derivedFrom # calls[j].derivedFrom

\* C7: after n completed encryptMessage calls on a session, whatever their
\* overlap, messageNumber is its initial value plus n, and no two calls
\* observe the same number.
C7_NumbersNeverRepeat ==
  /\ (\A i \in 1..Len(calls) : calls[i].pc = "returned")
       => mem["A"].sessions["B"].messageNumber = Len(calls)
  /\ \A i, j \in 1..Len(calls) :
       (i # j /\ calls[i].pc = "returned" /\ calls[j].pc = "returned")
         => calls[i].observed # calls[j].observed

\* C11: for a peer with no stored session, encryptMessage and decryptMessage
\* fail with NoSession, return no ciphertext and no plaintext, and leave the
\* service's fields and its Keychain (the persisted sessions included) as
\* they were; so a message that arrives before the receiver has a session
\* for its sender is rejected without altering the receiver's state.
C11_NoSessionRejected ==
  \A s \in Svc : \A p \in Peers \ {s} :
    mem[s].sessions[p] = NoSessionState =>
      /\ \A text \in Plaintexts :
           LET r == encryptMessage(mem[s], keychain[s], p, text, fresh + 1)
           IN  /\ r.error = "NoSession"
               /\ r.message = NoMessage
               /\ r.mem = mem[s]
               /\ r.kc = keychain[s]
      /\ \A q \in Svc \ {s} : \A i \in 1..Len(wire[<<q, s>>]) :
           LET r == decryptMessage(mem[s], keychain[s], p, wire[<<q, s>>][i])
           IN  /\ r.error = "NoSession"
               /\ r.plaintext = <<>>
               /\ r.mem = mem[s]
               /\ r.kc = keychain[s]

\* A message of B has reached A, which has an account but no session for B,
\* and A's decryptMessage has rejected it.
C11_EarlyMessageRejected ==
  /\ mem["A"].identityKeyPair # NoKeyPair
  /\ mem["A"].sessions["B"] = NoSessionState
  /\ sent[<<"B", "A">>] # <<>>
  /\ received[<<"B", "A">>] = <<FailedText>>
  /\ ratchetLog[<<"A", "B">>] = NoLog

\* C12: createAccount called while an identity is loaded fails with
\* AccountAlreadyExists and leaves the identity key pair, registration id,
\* signed pre-key and pre-key pool as they were, in the service's fields and
\* in the Keychain.
C12_SecondCreateAccountRefused ==
  \A s \in Svc : \A b \in RegIdDraws :
    mem[s].identityKeyPair # NoKeyPair =>
      LET r == createAccount(mem[s], keychain[s], fresh + 1, b)
      IN  /\ r.error = "AccountAlreadyExists"
          /\ r.mem.identityKeyPair = mem[s].identityKeyPair
          /\ r.mem.registrationId = mem[s].registrationId
          /\ r.mem.signedPreKey = mem[s].signedPreKey
          /\ r.mem.preKeys = mem[s].preKeys
          /\ r.kc = keychain[s]

-----------------------------------------------------------------------------
(* The web client's initialize() and generateIdentity() as the event loop  *)
(* runs them (part_003:72-120).  A request to the store takes effect when  *)
(* it is issued (IndexedDB serves requests in the order they are made);   *)
(* the call that made it resumes later.                                    *)

mobile == <<mem, keychain, messaging, pools, wipes, calls>>

\* Lines 72-74: getSecure(IDENTITY_KEY) is requested.
WebBeginInitialize ==
  /\ Len(web.inits) < MaxInits
  /\ web' = [web EXCEPT !.inits =
               Append(@, [pc |-> "identity",
                          storedIdentity |-> web.store.identity,
                          storedRegId |-> Absent(<<>>)])]
  /\ UNCHANGED <<build, fresh, mobile, trial>>

\* Lines 74-75: the stored identity arrives; getSecure(USER_HASH) is
\* requested.
WebAwaitIdentity(i) ==
  /\ i \in 1..Len(web.inits)
  /\ web.inits[i].pc = "identity"
  /\ web' = [web EXCEPT !.inits[i] =
               [@ EXCEPT !.pc = "userHash",
                         !.storedRegId = web.store.userHash]]
  /\ UNCHANGED <<build, fresh, mobile, trial>>

\* What the return of initialize() number i leaves behind, given the fields
\* and store w it returns on.
Returned(w, i) ==
  [w EXCEPT !.inits[i].pc = "done",
            !.first = IF w.first.taken THEN w.first
                      ELSE [taken |-> TRUE,
                            identityKeyPair |-> w.identityKeyPair,
                            registrationId |-> w.registrationId,
                            store |-> w.store]]

\* Lines 75-106: the stored registration id arrives.  With both values the
\* identity is loaded and the call returns; otherwise generateIdentity makes
\* a key pair and a registration id and requests the write of the key pair.
WebAwaitUserHash(i) ==
  /\ i \in 1..Len(web.inits)
  /\ web.inits[i].pc = "userHash"
  /\ LET c == web.inits[i]
     IN  IF c.storedIdentity.present /\ c.storedRegId.present
           THEN /\ web' = Returned(
                            [web EXCEPT
                               !.identityKeyPair = c.storedIdentity.value,
                               !.registrationId =
                                  ParseInt(c.storedRegId.value)], i)
                /\ fresh' = fresh
           ELSE /\ \E draw \in RandomDraws :
                     LET keyPair == WebKeyPair(Atom(fresh + 1, 1))
                     IN  web' = [web EXCEPT
                                   !.identityKeyPair = keyPair,
                                   !.registrationId = draw,
                                   !.store.identity = Stored(keyPair),
                                   !.generated = @ + 1,
                                   !.inits[i].pc = "setIdentity"]
                /\ fresh' = fresh + 1
  /\ UNCHANGED <<build, mobile, trial>>

\* Lines 107-117: the key pair is written; the write of the registration
\* id, as the field holds it now, is requested.
WebAwaitSetIdentity(i) ==
  /\ i \in 1..Len(web.inits)
  /\ web.inits[i].pc = "setIdentity"
  /\ web' = [web EXCEPT
               !.store.userHash = Stored(ToDecimal(web.registrationId)),
               !.inits[i].pc = "setUserHash"]
  /\ UNCHANGED <<build, fresh, mobile, trial>>

\* Lines 117-120: the registration id is written; generateIdentity and
\* initialize return.
WebAwaitSetUserHash(i) ==
  /\ i \in 1..Len(web.inits)
  /\ web.inits[i].pc = "setUserHash"
  /\ web' = Returned(web, i)
  /\ UNCHANGED <<build, fresh, mobile, trial>>

\* generateIdentity() called by the application, run to completion.
WebGenerateIdentity ==
  /\ web.generated < MaxInits
  /\ \E draw \in RandomDraws :
       LET keyPair == WebKeyPair(Atom(fresh + 1, 1))
       IN  web' = [web EXCEPT
                     !.identityKeyPair = keyPair,
                     !.registrationId = draw,
                     !.store = [identity |-> Stored(keyPair),
                                userHash |-> Stored(ToDecimal(draw))],
                     !.generated = @ + 1,
                     !.explicit = TRUE]
  /\ fresh' = fresh + 1
  /\ UNCHANGED <<build, mobile, trial>>

NextWeb ==
  \/ WebBeginInitialize
  \/ \E i \in 1..MaxInits : WebAwaitIdentity(i)
  \/ \E i \in 1..MaxInits : WebAwaitUserHash(i)
  \/ \E i \in 1..MaxInits : WebAwaitSetIdentity(i)
  \/ \E i \in 1..MaxInits : WebAwaitSetUserHash(i)
  \/ WebGenerateIdentity

SpecWeb == Init /\ [][NextWeb]_vars

\* C13: initialize() on a store that holds no identity leaves the identity,
\* registration id, signed pre-key and pre-key pool in memory empty and
\* writes nothing to the store: as long as the application has not asked for
\* an identity itself, none exists.  (Mobile service and web client.)
C13_InitializeCreatesNothing ==
  /\ LET m == initialize(Constructed, EmptyKeychain)
     IN  /\ m.identityKeyPair = NoKeyPair
         /\ m.registrationId = NoRegistrationId
         /\ m.signedPreKey = NoSignedPreKey
         /\ m.preKeys = <<>>
  /\ ~web.explicit =>
       /\ web.identityKeyPair = NoKeyPair
       /\ web.registrationId = 0
       /\ web.store = EmptyStore

\* C14: initialize() is idempotent: when every initialize() call made has
\* returned, whether the calls ran one after the other or overlapped, the
\* fields and the store are as the first call to return left them; and a
\* second initialize() of the mobile service changes nothing.
C14_InitializeIdempotent ==
  /\ \A s \in Svc :
       initialize(initialize(mem[s], keychain[s]), keychain[s])
         = initialize(mem[s], keychain[s])
  /\ (/\ ~web.explicit
      /\ web.first.taken
      /\ \A i \in 1..Len(web.inits) : web.inits[i].pc = "done")
       => /\ web.identityKeyPair = web.first.identityKeyPair
          /\ web.registrationId = web.first.registrationId
          /\ web.store = web.first.store

\* The preKeyId arguments tried on pool: none (0), the first and the largest
\* id of the pool, an id above all of them, and the ids consumed so far.
PreKeyIdArgs(s, pool) ==
  {0, SetMax(KeyIds(pool) \cup {0}) + 1} \cup consumed[s]
    \cup (IF Len(pool) = 0 THEN {}
          ELSE {pool[1].keyId, SetMax(KeyIds(pool))})

\* C15: getPreKeyBundle(preKeyId) fails with AccountNotInitialized when the
\* identity, the registration id or the signed pre-key is missing; otherwise
\* it returns the current identity public key, registration id and signed
\* pre-key, with the pool key of id preKeyId when the pool has one, with
\* some pool key when it has not (or no id is given), and with no one-time
\* key exactly when the pool is empty.  (It is a function of the fields: it
\* assigns none.)  Checked on the pool as it is and on an empty pool.
C15_BundleContents ==
  \A s \in Svc : \A pool \in {mem[s].preKeys, <<>>} :
    \A preKeyId \in PreKeyIdArgs(s, pool) :
      LET m == [mem[s] EXCEPT !.preKeys = pool]
          r == getPreKeyBundle(m, preKeyId)
          b == r.bundle
          InPool(k) == \E j \in 1..Len(pool) :
                         /\ pool[j].keyId = k.keyId
                         /\ pool[j].publicKey = k.publicKey
      IN  IF \/ m.identityKeyPair = NoKeyPair
             \/ m.registrationId = NoRegistrationId
             \/ m.signedPreKey = NoSignedPreKey
            THEN r.error = "AccountNotInitialized"
            ELSE /\ r.error = ""
                 /\ b.identityKey = m.identityKeyPair.publicKey
                 /\ b.registrationId = m.registrationId
                 /\ b.signedPreKey.keyId = m.signedPreKey.keyId
                 /\ b.signedPreKey.publicKey = m.signedPreKey.publicKey
                 /\ b.signedPreKey.signature = m.signedPreKey.signature
                 /\ b.hasPreKey <=> pool # <<>>
                 /\ b.hasPreKey => InPool(b.preKey)
                 /\ preKeyId \in KeyIds(pool) => b.preKey.keyId = preKeyId

\* A has an account and a pool from which keys have been consumed, and
\* getPreKeyBundle with the largest id of the pool returns that key, not the
\* first one.
C15_SpecificKeyReturned ==
  /\ mem["A"].identityKeyPair # NoKeyPair
  /\ consumed["A"] # {}
  /\ Len(mem["A"].preKeys) > 1
  /\ LET top == SetMax(KeyIds(mem["A"].preKeys))
         r == getPreKeyBundle(mem["A"], top)
     IN  /\ r.error = ""
         /\ r.bundle.preKey.keyId = top
         /\ top # mem["A"].preKeys[1].keyId

-----------------------------------------------------------------------------
(* getSafetyNumber tried on its own: A and B hold sessions for each other, *)
(* each with the other's identity public key.                              *)

ByteValues == {0, 1, 255}

PublicKeys == [1..KeyLen -> ByteValues]

rest == <<build, mem, keychain, fresh, messaging, pools, wipes, calls, web>>

InitSafety ==
  /\ naclLoaded \in BOOLEAN
  /\ subtleAvailable \in BOOLEAN
  /\ Idle
  /\ \E keyA \in PublicKeys : \E keyB \in PublicKeys :
       trial = [op |-> "getSafetyNumber", args |-> <<keyA, keyB>>,
                results |-> <<>>]

\* A computes the safety number of its session with B.
SafetyNumberAtA ==
  /\ trial.op = "getSafetyNumber"
  /\ Len(trial.results) = 0
  /\ trial' = [trial EXCEPT !.results =
                 <<getSafetyNumber(TRUE, TRUE, trial.args[1], trial.args[2])>>]
  /\ UNCHANGED rest

\* B computes the safety number of its session with A.
SafetyNumberAtB ==
  /\ trial.op = "getSafetyNumber"
  /\ Len(trial.results) = 1
  /\ trial' = [trial EXCEPT !.results =
                 Append(@, getSafetyNumber(TRUE, TRUE, trial.args[2],
                                           trial.args[1]))]
  /\ UNCHANGED rest

NextSafety == SafetyNumberAtA \/ SafetyNumberAtB

SpecSafety == InitSafety /\ [][NextSafety]_vars

\* a is not after b in byte-wise (lexicographic) order.
BytewiseLeq(a, b) ==
  LET i == FirstDifference(a, b) IN i = 0 \/ a[i] < b[i]

\* C16: the safety number A computes for its session with B equals the one
\* B computes for its session with A, and it is the number of the two
\* identity public keys with the byte-wise smaller one placed first.
C16_SafetyNumberSymmetric ==
  (trial.op = "getSafetyNumber" /\ Len(trial.results) = 2) =>
    LET keyA == trial.args[1]
        keyB == trial.args[2]
        smaller == IF BytewiseLeq(keyA, keyB) THEN keyA ELSE keyB
        larger == IF BytewiseLeq(keyA, keyB) THEN keyB ELSE keyA
    IN  /\ trial.results[1] = trial.results[2]
        /\ trial.results[1] # <<>>
        /\ trial.results[1]
             = GroupsOfFive(PadStart(ToDecimal(
                 Fingerprint(smaller \o larger, 0)), SafetyDigits))

\* Both ends have computed the number of two keys that agree in their first
\* byte and differ later, A's being the larger.
C16_BothComputed ==
  /\ trial.op = "getSafetyNumber"
  /\ Len(trial.results) = 2
  /\ trial.args[1][1] = trial.args[2][1]
  /\ trial.args[1][KeyLen] > trial.args[2][KeyLen]

-----------------------------------------------------------------------------
(* RecoveryService (RecoveryService.ts): the 12-word recovery phrase       *)

\* Line 85: the word list is padded to 2048 entries.
WORDLIST_SIZE == 2048

\* Lines 15-82: the words written out in the list; distinct and lower-case.
LISTED_WORDS == 512

\* Line 97: 128 bits of entropy.
ENTROPY_BYTES == 16

\* The width of the integers that <<, >>, | and & work on.
INT_BITS == 32

\* Lines 15-87: WORDLIST, entry i (from 0) being the i-th listed word or the
\* generated `word${i}`.
WORDLIST ==
  [i \in 0..(WORDLIST_SIZE - 1) |->
     IF i < LISTED_WORDS THEN [kind |-> "listed", n |-> i]
                          ELSE [kind |-> "generated", n |-> i]]

\* The space character of a phrase.
Space == [kind |-> "space", n |-> 0]

\* WORDLIST.includes(word)
Includes(word) == \E i \in DOMAIN WORDLIST : WORDLIST[i] = word

\* WORDLIST.indexOf(word): the first index holding the word, -1 without one.
IndexOf(word) ==
  LET I == {i \in DOMAIN WORDLIST : WORDLIST[i] = word}
  IN  IF I = {} THEN -1 ELSE CHOOSE i \in I : \A j \in I : i <= j

RECURSIVE Power2(_)
Power2(n) == IF n = 0 THEN 1 ELSE 2 * Power2(n - 1)

\* A 32-bit integer as its bits, the sign bit first.  ToInt32 of a value
\* from 0 to 2^31 - 1; -1 (indexOf's failure) is all ones.
ToInt32(v) ==
  [i \in 1..INT_BITS |->
     IF v < 0 THEN 1
     ELSE IF i = 1 THEN 0
     ELSE (v \div Power2(INT_BITS - i)) % 2]

\* a << n: the high bits fall off.
ShiftLeft(a, n) ==
  [i \in 1..INT_BITS |-> IF i + n <= INT_BITS THEN a[i + n] ELSE 0]

\* a >> n: the sign bit is copied in.
ShiftRight(a, n) ==
  [i \in 1..INT_BITS |-> IF i - n >= 1 THEN a[i - n] ELSE a[1]]

BitOr(a, b) == [i \in 1..INT_BITS |-> IF a[i] = 1 \/ b[i] = 1 THEN 1 ELSE 0]

BitAnd(a, b) == [i \in 1..INT_BITS |-> IF a[i] = 1 /\ b[i] = 1 THEN 1 ELSE 0]

\* The number a non-negative 32-bit integer stands for.
RECURSIVE ValueOf(_, _)
ValueOf(a, i) ==
  IF i > INT_BITS THEN 0
  ELSE a[i] * Power2(INT_BITS - i) + ValueOf(a, i + 1)

\* (a >> n) & mask, as a number.
Field(a, n, mask) == ValueOf(BitAnd(ShiftRight(a, n), ToInt32(mask)), 2)

\* Lines 206-213: calculateChecksum, the sum of the bytes & 0xFF.
RECURSIVE calculateChecksum(_)
calculateChecksum(entropy) ==
  IF Len(entropy) = 0 THEN 0
  ELSE (calculateChecksum(SubSeq(entropy, 1, Len(entropy) - 1))
          + entropy[Len(entropy)]) % 256

\* Lines 125-129: the inner while loop of generateMnemonic (index at 127).
RECURSIVE TakeWords(_, _, _)
TakeWords(buffer, bits, words) ==
  IF bits >= 11
    THEN TakeWords(buffer, bits - 11,
                   Append(words, WORDLIST[Field(buffer, bits - 11, 2047)]))
    ELSE [bits |-> bits, words |-> words]

\* Lines 121-130: the loop of generateMnemonic over the combined bytes.
RECURSIVE PackWords(_, _, _, _)
PackWords(combined, buffer, bits, words) ==
  IF Len(combined) = 0 THEN words
  ELSE LET b == BitOr(ShiftLeft(buffer, 8), ToInt32(Head(combined)))
           t == TakeWords(b, bits + 8, words)
       IN  PackWords(Tail(combined), b, t.bits, t.words)

\* words.join(' '): the words with a space between neighbours.
RECURSIVE Join(_)
Join(words) ==
  IF Len(words) = 0 THEN <<>>
  ELSE IF Len(words) = 1 THEN words
  ELSE <<Head(words), Space>> \o Join(Tail(words))

\* phrase.trim().split(/\s+/): the runs between spaces.
RECURSIVE Split(_)
Split(phrase) ==
  IF Len(phrase) = 0 THEN <<>>
  ELSE IF Head(phrase) = Space THEN Split(Tail(phrase))
  ELSE <<Head(phrase)>> \o Split(Tail(phrase))

\* Lines 95-133: generateMnemonic, for the entropy the random source gave.
generateMnemonic(entropy) ==
  LET combined == Append(entropy, calculateChecksum(entropy))
      words == PackWords(combined, ToInt32(0), 0, <<>>)
  IN  Join(SubSeq(words, 1, IF Len(words) < 12 THEN Len(words) ELSE 12))

\* Lines 194-197: the inner while loop of mnemonicToEntropy.
RECURSIVE TakeBytes(_, _, _)
TakeBytes(buffer, bits, entropy) ==
  IF bits >= 8 /\ Len(entropy) < ENTROPY_BYTES
    THEN TakeBytes(buffer, bits - 8,
                   Append(entropy, Field(buffer, bits - 8, 255)))
    ELSE [bits |-> bits, entropy |-> entropy]

\* Lines 190-198: the loop of mnemonicToEntropy over the indices.
RECURSIVE UnpackBytes(_, _, _, _)
UnpackBytes(indices, buffer, bits, entropy) ==
  IF Len(indices) = 0 THEN entropy
  ELSE LET b == BitOr(ShiftLeft(buffer, 11), ToInt32(Head(indices)))
           t == TakeBytes(b, bits + 11, entropy)
       IN  UnpackBytes(Tail(indices), b, t.bits, t.entropy)

\* Lines 180-201: mnemonicToEntropy; the bytes never written stay zero.
mnemonicToEntropy(mnemonic) ==
  LET words == Split(mnemonic)
      indices == [i \in 1..Len(words) |-> IndexOf(words[i])]
      written == UnpackBytes(indices, ToInt32(0), 0, <<>>)
  IN  written \o [i \in 1..(ENTROPY_BYTES - Len(written)) |-> 0]

\* Lines 163-166: buffer = (buffer << 11) | index over the indices (164).
RECURSIVE ShiftIn(_, _)
ShiftIn(indices, buffer) ==
  IF Len(indices) = 0 THEN buffer
  ELSE ShiftIn(Tail(indices),
               BitOr(ShiftLeft(buffer, 11), ToInt32(Head(indices))))

\* validateMnemonic comparing the low four bits of the expected checksum.
validateMnemonicLowBits(mnemonic) ==
  LET words == Split(mnemonic)
  IN  IF Len(words) # 12 THEN FALSE
      ELSE IF \E i \in 1..12 : ~Includes(words[i]) THEN FALSE
      ELSE LET expectedChecksum == calculateChecksum(mnemonicToEntropy(mnemonic))
               indices == [i \in 1..12 |-> IndexOf(words[i])]
               actualChecksum == Field(ShiftIn(indices, ToInt32(0)), 0, 15)
           IN  (expectedChecksum % 16) = actualChecksum

\* Lines 138-175: validateMnemonic.
validateMnemonic(mnemonic) ==
  LET words == Split(mnemonic)
  IN  IF Len(words) # 12 THEN FALSE
      ELSE IF \E i \in 1..12 : ~Includes(words[i]) THEN FALSE
      ELSE LET expectedChecksum == calculateChecksum(mnemonicToEntropy(mnemonic))
               indices == [i \in 1..12 |-> IndexOf(words[i])]
               actualChecksum == Field(ShiftIn(indices, ToInt32(0)), 0, 15)
           IN  (expectedChecksum \div 16) = actualChecksum

\* The entropies tried: every byte the same (all zeros or all ones) but one.
EntropyBytes == {0, 1, 170, 255}

Entropies ==
  {[i \in 1..ENTROPY_BYTES |-> IF i = p THEN c ELSE b] :
     p \in 1..ENTROPY_BYTES, b \in {0, 255}, c \in EntropyBytes}

InitMnemonic ==
  /\ naclLoaded \in BOOLEAN
  /\ subtleAvailable \in BOOLEAN
  /\ Idle
  /\ \E entropy \in Entropies :
       trial = [op |-> "generateMnemonic", args |-> <<entropy>>,
                results |-> <<>>]

\* generateMnemonic() with the random source giving the entropy.
GenerateMnemonic ==
  /\ trial.op = "generateMnemonic"
  /\ Len(trial.results) = 0
  /\ trial' = [trial EXCEPT !.results = <<generateMnemonic(trial.args[1])>>]
  /\ UNCHANGED rest

\* validateMnemonic(phrase) of the phrase generated.
ValidateMnemonic ==
  /\ trial.op = "generateMnemonic"
  /\ Len(trial.results) = 1
  /\ trial' = [trial EXCEPT !.results =
                 Append(@, validateMnemonic(trial.results[1]))]
  /\ UNCHANGED rest

NextMnemonic == GenerateMnemonic \/ ValidateMnemonic

SpecMnemonic == InitMnemonic /\ [][NextMnemonic]_vars

\* C17: for every entropy, the generated phrase has exactly 12 words, all from
\* the 2048-word list, and validateMnemonic of it is true; the words carry
\* the entropy back (mnemonicToEntropy inverts the packing).
C17_GeneratedPhraseValid ==
  (trial.op = "generateMnemonic" /\ Len(trial.results) >= 1) =>
    LET words == Split(trial.results[1])
    IN  /\ Len(words) = 12
        /\ \A i \in 1..Len(words) : Includes(words[i])
        /\ mnemonicToEntropy(trial.results[1]) = trial.args[1]
        /\ Len(trial.results) = 2 => trial.results[2] = TRUE

\* A phrase was generated from an entropy whose top byte is 255 (the 32-bit
\* buffer goes negative) with a non-zero checksum nibble, and validated.
C17_Validated ==
  /\ trial.op = "generateMnemonic"
  /\ Len(trial.results) = 2
  /\ trial.args[1][1] = 255
  /\ calculateChecksum(trial.args[1]) \div 16 # 0

\* The pairs of random bytes tried for the mobile registration id.
RegIdBytePairs == {<<a, b>> : a \in {0, 63, 64, 192, 255}, b \in {0, 1, 255}}

\* C18: once an identity exists, the registration id is an integer from 1 to
\* 16383, whatever the random source gave: on the mobile service for every
\* pair of random bytes, and on the web client for every draw.
C18_RegistrationIdInRange ==
  /\ \A b \in RegIdBytePairs : RegistrationIdOf(b) \in 1..16383
  /\ \A s \in Svc : mem[s].identityKeyPair # NoKeyPair
                      => mem[s].registrationId \in 1..16383
  /\ web.identityKeyPair # NoKeyPair => web.registrationId \in 1..16383

\* C19: every successful encryptMessage and every successful decryptMessage
\* adds one to the session's messageNumber: the sender's number is the count
\* of messages it encrypted, the receiver's the count it decrypted, and once
\* everything sent has been decrypted in order the two are equal.
C19_MessageNumbersAdvance ==
  LET d == <<"A", "B">>
      decrypted == {i \in 1..Len(received[d]) : received[d][i] # FailedText}
  IN  /\ mem["A"].sessions["B"].messageNumber = Len(sent[d])
      /\ mem["B"].sessions["A"].messageNumber = Cardinality(decrypted)
      /\ (wire[d] = <<>> /\ Cardinality(decrypted) = Len(sent[d]))
           => mem["A"].sessions["B"].messageNumber
                = mem["B"].sessions["A"].messageNumber

-----------------------------------------------------------------------------
(* Decryption retried: the relay hands B the messages A sent in any order, *)
(* and a message whose decryption threw is not acknowledged                 *)
(* (ChatScreen.pollMessages, lines 208-238), so it is decrypted again.      *)

MaxAttempts == 3

\* B calls decryptMessage("A", c) for the i-th message c held by the relay.
DecryptAttempt(i) ==
  /\ Len(received[<<"A", "B">>]) < MaxAttempts
  /\ i \in 1..Len(wire[<<"A", "B">>])
  /\ LET c == wire[<<"A", "B">>][i]
         r == decryptMessage(mem["B"], keychain["B"], "A", c)
     IN  /\ mem' = [mem EXCEPT !["B"] = r.mem]
         /\ keychain' = [keychain EXCEPT !["B"] = r.kc]
         /\ received' = [received EXCEPT ![<<"A", "B">>] =
              Append(@, IF r.error = "" THEN r.plaintext ELSE FailedText)]
         /\ ratchetLog' =
              [ratchetLog EXCEPT ![<<"B", "A">>] =
                 LogStep(@, r.messageKey, r.mem.sessions["A"].chainKey)]
         /\ trial' = [op |-> "decryptMessage", args |-> <<c>>,
                      results |-> IF trial.op = "decryptMessage"
                                     /\ trial.args = <<c>>
                                    THEN Append(trial.results, r.error)
                                    ELSE <<r.error>>]
  /\ UNCHANGED <<build, fresh, wire, sent, pools, wipes, calls, web>>

NextRetry ==
  \/ EncryptText("A", "B", Texts, 2 + MaxMessages)
  \/ \E i \in 1..MaxMessages : DecryptAttempt(i)

SpecRetry == InitRatchet /\ [][NextRetry]_vars

\* C20: when decryptMessage(peer, c) has failed with DecryptionFailed, the
\* next call on that session, if it is decryptMessage(peer, c) with the same
\* ciphertext, fails with DecryptionFailed again.
C20_RetryFailsAgain ==
  trial.op = "decryptMessage" =>
    \A k \in 1..(Len(trial.results) - 1) :
      trial.results[k] = "DecryptionFailed"
        => trial.results[k + 1] = "DecryptionFailed"

-----------------------------------------------------------------------------
(* The Keychain failing: getGenericPassword or setGenericPassword rejects   *)
(* (an I/O error of the secure store) during a call.                        *)

KeychainKeys ==
  {"identity_key_pair", "registration_id", "signed_prekey", "prekeys",
   "sessions"}

\* Lines 449-464: loadFromKeychain when getGenericPassword throws for the
\* keys of failing: the catch returns null.
loadFromFailingKeychain(kc, key, failing) ==
  IF key \in failing THEN EmptyKeychain[key].value
  ELSE loadFromKeychain(kc, key)

\* Lines 487-516: initialize() while the loads of failing throw inside
\* loadFromKeychain; no statement of initialize throws.
initializeOnFailingKeychain(m, kc, failing) ==
  IF m.initialized THEN [mem |-> m, error |-> ""]
  ELSE [mem |->
          [identityKeyPair |->
             loadFromFailingKeychain(kc, "identity_key_pair", failing),
           registrationId |->
             loadFromFailingKeychain(kc, "registration_id", failing),
           signedPreKey |->
             loadFromFailingKeychain(kc, "signed_prekey", failing),
           preKeys |-> IF kc.prekeys.present /\ "prekeys" \notin failing
                         THEN loadFromKeychain(kc, "prekeys") ELSE m.preKeys,
           sessions |-> IF kc.sessions.present /\ "sessions" \notin failing
                          THEN loadFromKeychain(kc, "sessions")
                          ELSE m.sessions,
           initialized |-> TRUE],
        error |-> ""]

\* Lines 438-447 called at 738 (encryptMessage) or 780 (decryptMessage) with
\* setGenericPassword rejecting: the call r ends in the rejection, the fields
\* are as r left them, the Keychain is as it was before the call.
SaveRejected(r, kc) ==
  IF r.error # "" THEN r
  ELSE [r EXCEPT !.kc = kc, !.error = "StorageError"]

\* The sets of loads that fail during one initialize().
LoadFailures == {{}, {"sessions"}, KeychainKeys}

InitializeOnFaultyStore(s) ==
  /\ ~mem[s].initialized
  /\ \E failing \in LoadFailures :
       LET r == initializeOnFailingKeychain(mem[s], keychain[s], failing)
       IN  /\ mem' = [mem EXCEPT ![s] = r.mem]
           /\ trial' = [op |-> "initialize", args |-> <<failing # {}, s, s>>,
                        results |-> <<r.error>>]
  /\ UNCHANGED <<build, keychain, fresh, messaging, pools, wipes, calls, web>>

\* The text sent while the store fails: "hi".
FaultTexts == {<<104, 105>>}

EncryptOnFaultyStore(s, p) ==
  /\ fresh < 2 + MaxMessages
  /\ \E text \in FaultTexts : \E rejected \in BOOLEAN :
       LET done == encryptMessage(mem[s], keychain[s], p, text, fresh + 1)
           r == IF rejected THEN SaveRejected(done, keychain[s]) ELSE done
       IN  /\ mem' = [mem EXCEPT ![s] = r.mem]
           /\ keychain' = [keychain EXCEPT ![s] = r.kc]
           /\ IF r.error = ""
                THEN /\ wire' = [wire EXCEPT ![<<s, p>>] = Append(@, r.message)]
                     /\ sent' = [sent EXCEPT ![<<s, p>>] = Append(@, text)]
                ELSE UNCHANGED <<wire, sent>>
           /\ ratchetLog' =
                IF done.error = ""
                  THEN [ratchetLog EXCEPT ![<<s, p>>] =
                          LogStep(@, r.messageKey, r.mem.sessions[p].chainKey)]
                  ELSE ratchetLog
           /\ fresh' = IF done.error = "" THEN fresh + 1 ELSE fresh
           /\ trial' = [op |-> "encryptMessage",
                        args |-> <<rejected /\ done.error = "", s, p>>,
                        results |-> <<r.error>>]
  /\ UNCHANGED <<build, received, pools, wipes, calls, web>>

DecryptOnFaultyStore(s, p) ==
  /\ wire[<<p, s>>] # <<>>
  /\ \E rejected \in BOOLEAN :
       LET done == decryptMessage(mem[s], keychain[s], p, Head(wire[<<p, s>>]))
           r == IF rejected THEN SaveRejected(done, keychain[s]) ELSE done
       IN  /\ mem' = [mem EXCEPT ![s] = r.mem]
           /\ keychain' = [keychain EXCEPT ![s] = r.kc]
           /\ received' = [received EXCEPT ![<<p, s>>] =
                Append(@, IF r.error = "" THEN r.plaintext ELSE FailedText)]
           /\ ratchetLog' =
                IF done.error = "NoSession" THEN ratchetLog
                ELSE [ratchetLog EXCEPT ![<<s, p>>] =
                        LogStep(@, r.messageKey, r.mem.sessions[p].chainKey)]
           /\ trial' = [op |-> "decryptMessage",
                        args |-> <<rejected /\ done.error = "", s, p>>,
                        results |-> <<r.error>>]
  /\ wire' = [wire EXCEPT ![<<p, s>>] = Tail(@)]
  /\ UNCHANGED <<build, fresh, sent, pools, wipes, calls, web>>

NextFault ==
  \/ \E s \in Svc : Restart(s)
  \/ \E s \in Svc : InitializeOnFaultyStore(s)
  \/ EncryptOnFaultyStore("A", "B")
  \/ DecryptOnFaultyStore("B", "A")

SpecFault == InitRatchet /\ [][NextFault]_vars

\* C21: when the secure store failed with an I/O error during a load or a
\* save made by the last call (initialize, encryptMessage, decryptMessage),
\* the call failed: the error reached the caller.
C21_StoreErrorPropagated ==
  (trial.op \in {"initialize", "encryptMessage", "decryptMessage"}
     /\ trial.args[1])
    => trial.results[1] # ""

\* C22: when the last encryptMessage or decryptMessage call failed (it was
\* aborted, or its Keychain write was rejected), the caller's session for
\* the peer in memory equals the persisted one.
C22_SessionAllOrNothing ==
  (trial.op \in {"encryptMessage", "decryptMessage"}
     /\ trial.results[1] # "")
    => LET s == trial.args[2]
           p == trial.args[3]
       IN  /\ keychain[s].sessions.present
           /\ mem[s].sessions[p] = keychain[s].sessions.value[p]

-----------------------------------------------------------------------------
(* Duress PINs: PanicService.handlePinEntry (mobile, part_008) and          *)
(* PanicService.checkDuressCode with the listener of App.tsx (web, part_004) *)

\* part_008 lines 51-55, part_004 lines 21-25.
DURESS_CODES ==
  ("1969" :> "real") @@ ("0000" :> "decoy") @@ ("9111" :> "scorched_earth")

\* DURESS_CODES[pin] for a PIN, a string of digits: the value, or undefined.
Lookup(pin) ==
  IF pin \in DOMAIN DURESS_CODES THEN DURESS_CODES[pin] ELSE "undefined"

PanicEventOf(trigger, action) == [trigger |-> trigger, action |-> action]

\* part_008 lines 125-141 with executeScorchedEarth (lines 314-341): what
\* is returned, the events the listeners receive, whether the wipe runs.
handlePinEntry(pin) ==
  LET action == Lookup(pin)
  IN  IF action = "undefined"
        THEN [returned |-> "null", events |-> <<>>, wipe |-> FALSE]
      ELSE IF action = "decoy"
        THEN [returned |-> action,
              events |-> <<PanicEventOf("duress_pin", "decoy")>>,
              wipe |-> FALSE]
      ELSE IF action = "scorched_earth"
        THEN [returned |-> action,
              events |-> <<PanicEventOf("duress_pin", "scorched_earth"),
                           PanicEventOf("duress_pin", "decoy")>>,
              wipe |-> TRUE]
      ELSE [returned |-> action, events |-> <<>>, wipe |-> FALSE]

\* part_004 lines 109-122: triggerPanic(trigger), the action always 'decoy'.
triggerPanic(trigger) == <<PanicEventOf(trigger, "decoy")>>

\* part_004 lines 127-139: checkDuressCode(code).
checkDuressCode(code) ==
  IF code \in DOMAIN DURESS_CODES
    THEN LET action == Lookup(code)
         IN  [returned |-> action,
              events |-> IF action # "real" THEN triggerPanic("duress_pin")
                                            ELSE <<>>]
    ELSE [returned |-> "null", events |-> <<>>]

\* The PINs entered.
Pins == {"1969", "0000", "9111", "1234", "911", "91110"}

\* The mobile service A holds an account and the web client an identity.
InitPanic ==
  /\ naclLoaded \in BOOLEAN
  /\ subtleAvailable \in BOOLEAN
  /\ LET a == createAccount(Constructed, EmptyKeychain, 1, <<255, 255>>)
     IN  /\ mem = [s \in Svc |-> IF s = "A" THEN a.mem ELSE Constructed]
         /\ keychain = [s \in Svc |-> IF s = "A" THEN a.kc ELSE EmptyKeychain]
  /\ fresh = 2
  /\ wire = [d \in Dirs |-> <<>>]
  /\ sent = [d \in Dirs |-> <<>>]
  /\ received = [d \in Dirs |-> <<>>]
  /\ ratchetLog = [d \in Dirs |-> NoLog]
  /\ handedOut = {}
  /\ consumed = [s \in Svc |-> {}]
  /\ wiped = [s \in Svc |-> FALSE]
  /\ preWipe = [s \in Svc |-> {}]
  /\ calls = <<>>
  /\ \E draw \in RandomDraws :
       web = [WebConstructed EXCEPT
                !.identityKeyPair = WebKeyPair(Atom(2, 1)),
                !.registrationId = draw,
                !.store = [identity |-> Stored(WebKeyPair(Atom(2, 1))),
                           userHash |-> Stored(ToDecimal(draw))],
                !.generated = 1,
                !.explicit = TRUE]
  /\ trial = NoTrial

\* The PIN is entered on the mobile app; Scorched Earth runs wipeAll().
MobilePinEntry(pin) ==
  /\ LET r == handlePinEntry(pin)
         w == wipeAll(mem["A"], keychain["A"])
     IN  /\ mem' = IF r.wipe THEN [mem EXCEPT !["A"] = w.mem] ELSE mem
         /\ keychain' = IF r.wipe THEN [keychain EXCEPT !["A"] = w.kc]
                                  ELSE keychain
         /\ wiped' = IF r.wipe THEN [wiped EXCEPT !["A"] = TRUE] ELSE wiped
         /\ preWipe' = IF r.wipe /\ ~wiped["A"]
                         THEN [preWipe EXCEPT !["A"] = PrivateKeysOf("A")]
                         ELSE preWipe
         /\ trial' = [op |-> "handlePinEntry", args |-> <<pin>>,
                      results |-> <<r.returned, r.events>>]
  /\ UNCHANGED <<build, fresh, messaging, pools, calls, web>>

\* The PIN is entered on the web app; the listener App.tsx registered
\* (lines 40-48) clears the store on a 'scorched_earth' event (lines 51-56).
WebPinEntry(pin) ==
  /\ LET r == checkDuressCode(pin)
         scorched == \E i \in 1..Len(r.events) :
                       r.events[i].action = "scorched_earth"
     IN  /\ web' = IF scorched
                     THEN [web EXCEPT !.store = EmptyStore,
                                      !.identityKeyPair = NoKeyPair,
                                      !.registrationId = 0]
                     ELSE web
         /\ trial' = [op |-> "checkDuressCode", args |-> <<pin>>,
                      results |-> <<r.returned, r.events>>]
  /\ UNCHANGED <<build, fresh, mobile>>

NextPanic ==
  \/ \E pin \in Pins : MobilePinEntry(pin)
  \/ \E pin \in Pins : WebPinEntry(pin)

SpecPanic == InitPanic /\ [][NextPanic]_vars

\* The stored data and keys of the app the last PIN was entered on are gone.
DataWiped ==
  IF trial.op = "handlePinEntry"
    THEN mem["A"] = Constructed /\ keychain["A"] = EmptyKeychain
    ELSE web.store = EmptyStore

\* C23: after a PIN entry, 9111 has returned 'scorched_earth', the listeners
\* have received a 'scorched_earth' event and the data and keys are wiped;
\* 0000 has returned 'decoy' with a 'decoy' event and nothing else; 1969
\* has returned 'real' with no event; any other PIN has returned null with
\* no event.
C23_DuressPinTable ==
  trial.op \in {"handlePinEntry", "checkDuressCode"} =>
    LET pin == trial.args[1]
        returned == trial.results[1]
        events == trial.results[2]
        actions == {events[i].action : i \in 1..Len(events)}
    IN  /\ pin = "9111" => /\ returned = "scorched_earth"
                           /\ "scorched_earth" \in actions
                           /\ DataWiped
        /\ pin = "0000" => /\ returned = "decoy"
                           /\ actions = {"decoy"}
        /\ pin = "1969" => returned = "real" /\ events = <<>>
        /\ pin \notin {"9111", "0000", "1969"}
             => returned = "null" /\ events = <<>>

\* C24: once an account exists, every completed consumePreKey leaves at
\* least 20 keys in the pool, in memory and in the Keychain alike: when the
\* deletion leaves fewer than 20, exactly 100 new keys are added before the
\* call returns, each with an id above every id that was still in the pool.
C24_PoolReplenished ==
  /\ consumed["A"] # {} => Len(mem["A"].preKeys) >= LOW_WATER_MARK
  /\ \A keyId \in ConsumeChoices("A") :
       LET before == mem["A"].preKeys
           left == KeyIds(before) \ {keyId}
           r == consumePreKey(mem["A"], keychain["A"], keyId, fresh + 1)
           after == KeyIds(r.mem.preKeys)
       IN  /\ Len(r.mem.preKeys) >= LOW_WATER_MARK
           /\ Cardinality(after) = Len(r.mem.preKeys)
           /\ r.kc.prekeys = Stored(r.mem.preKeys)
           /\ left \subseteq after
           /\ IF Cardinality(left) < LOW_WATER_MARK
                THEN /\ Cardinality(after \ left) = PREKEY_BATCH_SIZE
                     /\ \A new \in after \ left : \A old \in left : new > old
                ELSE after = left

\* A consume has just refilled the pool: 19 keys were left and 100 added.
C24_JustReplenished ==
  /\ consumed["A"] # {}
  /\ Len(mem["A"].preKeys) = LOW_WATER_MARK - 1 + PREKEY_BATCH_SIZE

-----------------------------------------------------------------------------
(* consumePreKey calls that overlap: each call runs up to an await, then    *)
(* any call whose awaited promise has settled goes on.                      *)

\* Keys of a batch whose generation is followed step by step; the rest of
\* the batch is generated in the step after.
MaxStepwiseKeys == 2

NoConsume == [svc |-> "", keyId |-> 0, pc |-> "", startId |-> 0,
              written |-> 0, e |-> 0]

\* The account r after its first n pre-keys were consumed one by one, none
\* of the calls leaving fewer keys than the low-water mark: each deleted its
\* key and saved the pool.
AfterConsuming(r, n) ==
  LET pool == SubSeq(r.mem.preKeys, n + 1, Len(r.mem.preKeys))
  IN  [mem |-> [r.mem EXCEPT !.preKeys = pool],
       kc |-> saveToKeychain(r.kc, "prekeys", pool)]

\* A holds an account whose pool is down to the low-water mark.
InitPoolAsync ==
  /\ naclLoaded \in BOOLEAN
  /\ subtleAvailable \in BOOLEAN
  /\ LET a == AfterConsuming(
                createAccount(Constructed, EmptyKeychain, 1, <<255, 255>>),
                PREKEY_BATCH_SIZE - LOW_WATER_MARK)
     IN  /\ mem = [s \in Svc |-> IF s = "A" THEN a.mem ELSE Constructed]
         /\ keychain = [s \in Svc |-> IF s = "A" THEN a.kc ELSE EmptyKeychain]
  /\ fresh = 1
  /\ wire = [d \in Dirs |-> <<>>]
  /\ sent = [d \in Dirs |-> <<>>]
  /\ received = [d \in Dirs |-> <<>>]
  /\ ratchetLog = [d \in Dirs |-> NoLog]
  /\ handedOut = {}
  /\ consumed = [s \in Svc |-> {}]
  /\ wiped = [s \in Svc |-> FALSE]
  /\ preWipe = [s \in Svc |-> {}]
  /\ calls = <<>>
  /\ web = WebConstructed
  /\ trial = NoTrial

\* Lines 856-857: the key is deleted and the pool as it is now is written.
BeginConsume(s) ==
  /\ Len(calls) < MaxCalls
  /\ \E keyId \in PoolEnds(s) :
       LET IsOther(k) == k.keyId # keyId
           pool == SelectSeq(mem[s].preKeys, IsOther)
       IN  /\ mem' = [mem EXCEPT ![s].preKeys = pool]
           /\ keychain' = [keychain EXCEPT ![s] =
                             saveToKeychain(@, "prekeys", pool)]
           /\ consumed' = [consumed EXCEPT ![s] = @ \cup {keyId}]
           /\ calls' = Append(calls,
                         [NoConsume EXCEPT !.svc = s, !.keyId = keyId,
                                           !.pc = "saved", !.e = fresh + 1])
  /\ fresh' = fresh + 1
  /\ UNCHANGED <<build, messaging, handedOut, wipes, web, trial>>

\* Lines 860-862 and 577-578: the save is done; below the low-water mark
\* generatePreKeys is entered and awaits its first key pair.
AwaitConsumeSave(i) ==
  /\ i \in 1..Len(calls)
  /\ calls[i].pc = "saved"
  /\ LET pool == mem[calls[i].svc].preKeys
     IN  calls' = [calls EXCEPT ![i] =
                     IF Len(pool) < LOW_WATER_MARK
                       THEN [@ EXCEPT !.pc = "generating",
                                      !.startId = SetMax(KeyIds(pool) \cup {0}) + 1]
                       ELSE [@ EXCEPT !.pc = "returned"]]
  /\ UNCHANGED <<build, mem, keychain, fresh, messaging, pools, wipes, web, trial>>

\* Lines 578-585: a key pair arrives and is set under startId + i; then the
\* next one is awaited.
AwaitKeyPair(i) ==
  /\ i \in 1..Len(calls)
  /\ calls[i].pc = "generating"
  /\ calls[i].written < MaxStepwiseKeys
  /\ LET c == calls[i]
     IN  /\ mem' = [mem EXCEPT ![c.svc].preKeys =
                      PoolAfterGenerate(@, c.startId + c.written, 1, c.e,
                                        1 + c.written)]
         /\ calls' = [calls EXCEPT ![i].written = @ + 1]
  /\ UNCHANGED <<build, keychain, fresh, messaging, pools, wipes, web, trial>>

\* Lines 578-588: the remaining key pairs arrive and are set, and the pool
\* as it is now is written.
AwaitBatch(i) ==
  /\ i \in 1..Len(calls)
  /\ calls[i].pc = "generating"
  /\ calls[i].written = MaxStepwiseKeys
  /\ LET c == calls[i]
         pool == PoolAfterGenerate(mem[c.svc].preKeys, c.startId + c.written,
                                   PREKEY_BATCH_SIZE - c.written, c.e,
                                   1 + c.written)
     IN  /\ mem' = [mem EXCEPT ![c.svc].preKeys = pool]
         /\ keychain' = [keychain EXCEPT ![c.svc] =
                           saveToKeychain(@, "prekeys", pool)]
         /\ calls' = [calls EXCEPT ![i] =
                        [@ EXCEPT !.pc = "batchSaved",
                                  !.written = PREKEY_BATCH_SIZE]]
  /\ UNCHANGED <<build, fresh, messaging, pools, wipes, web, trial>>

\* Lines 588-589 and 863: the save is done and consumePreKey returns.
AwaitBatchSave(i) ==
  /\ i \in 1..Len(calls)
  /\ calls[i].pc = "batchSaved"
  /\ calls' = [calls EXCEPT ![i].pc = "returned"]
  /\ UNCHANGED <<build, mem, keychain, fresh, messaging, pools, wipes, web, trial>>

NextPoolAsync ==
  \/ BeginConsume("A")
  \/ \E i \in 1..MaxCalls : AwaitConsumeSave(i)
  \/ \E i \in 1..MaxCalls : AwaitKeyPair(i)
  \/ \E i \in 1..MaxCalls : AwaitBatch(i)
  \/ \E i \in 1..MaxCalls : AwaitBatchSave(i)

SpecPoolAsync == InitPoolAsync /\ [][NextPoolAsync]_vars

\* The pre-key ids call c has set a key pair of its own under.
IdsAssignedBy(c) == c.startId..(c.startId + c.written - 1)

\* C25: whatever the interleaving of the asynchronous steps of overlapping
\* consumePreKey calls, no pre-key id is assigned key pairs by two calls: no
\* replenishment sets an id that another call has set.
C25_NoIdAssignedTwice ==
  \A i, j \in 1..Len(calls) :
    i # j => IdsAssignedBy(calls[i]) \cap IdsAssignedBy(calls[j]) = {}

\* C26: as long as every decryptMessage call of B has failed, B's session
\* with A is unchanged, in memory as in the Keychain, and the first message
\* A sent still decrypts.
C26_FailedDecryptKeepsChain ==
  LET d == <<"A", "B">>
  IN  (/\ received[d] # <<>>
       /\ \A i \in 1..Len(received[d]) : received[d][i] = FailedText
       /\ wire[d] # <<>>)
        => /\ mem["B"].sessions["A"].chainKey
                = keychain["B"].sessions.value["A"].chainKey
           /\ mem["B"].sessions["A"].messageNumber
                = keychain["B"].sessions.value["A"].messageNumber
           /\ decryptMessage(mem["B"], keychain["B"], "A", wire[d][1]).error
                = ""

-----------------------------------------------------------------------------
(* wipeAll while an encryptMessage call is in progress                      *)

\* Lines 881-885: the entries in the order wipeAll removes them.
WipeOrder ==
  <<"identity_key_pair", "registration_id", "signed_prekey", "prekeys",
    "sessions">>

\* Lines 874-881: the fields are cleared and the first removal is issued.
BeginWipe(s) ==
  /\ ~wiped[s]
  /\ Len(calls) < MaxCalls
  /\ mem' = [mem EXCEPT ![s] = Constructed]
  /\ keychain' = [keychain EXCEPT ![s] = removeFromKeychain(@, WipeOrder[1])]
  /\ calls' = Append(calls, [NoCall EXCEPT !.svc = s, !.pc = "removing",
                                           !.observed = 1])
  /\ wiped' = [wiped EXCEPT ![s] = TRUE]
  /\ preWipe' = [preWipe EXCEPT ![s] = PrivateKeysOf(s)]
  /\ UNCHANGED <<build, fresh, messaging, pools, web, trial>>

\* Lines 881-888: a removal is done; the next is issued, or wipeAll returns.
AwaitRemove(i) ==
  /\ i \in 1..Len(calls)
  /\ calls[i].pc = "removing"
  /\ LET c == calls[i]
     IN  IF c.observed < Len(WipeOrder)
           THEN /\ keychain' = [keychain EXCEPT ![c.svc] =
                     removeFromKeychain(@, WipeOrder[c.observed + 1])]
                /\ calls' = [calls EXCEPT ![i].observed = @ + 1]
           ELSE /\ calls' = [calls EXCEPT ![i].pc = "returned"]
                /\ UNCHANGED keychain
  /\ UNCHANGED <<build, mem, fresh, messaging, pools, wipes, web, trial>>

NextWipeAsync ==
  \/ BeginEncrypt("A", "B")
  \/ \E i \in 1..MaxCalls : AwaitMessageKey(i)
  \/ \E i \in 1..MaxCalls : AwaitChainKey(i)
  \/ \E i \in 1..MaxCalls : AwaitEncrypt(i)
  \/ \E i \in 1..MaxCalls : AwaitSave(i)
  \/ BeginWipe("A")
  \/ \E i \in 1..MaxCalls : AwaitRemove(i)

SpecWipeAsync == InitRatchet /\ [][NextWipeAsync]_vars

\* C27: when wipeAll has run and every call, the wipe and the calls that
\* were in progress, has finished, A holds no session in memory or in the
\* Keychain and no private key that existed before the wipe.
C27_WipeIrreversible ==
  (wiped["A"] /\ \A i \in 1..Len(calls) : calls[i].pc = "returned")
    => /\ mem["A"].sessions = NoSessions
       /\ ~keychain["A"].sessions.present
       /\ PrivateKeysOf("A") \cap preWipe["A"] = {}


-----------------------------------------------------------------------------
(* establishSession on both clients (SignalProtocol.ts:632-703 and          *)
(* part_003:260-302)                                                        *)

MaxSessions == 2    \* establishSession calls in one behaviour

\* nacl.box.before(publicKey, secretKey): the shared key of a Curve25519
\* agreement; tweetnacl is a dependency of the web client.
before(publicKey, secretKey) ==
  IF publicKey.curve = "x25519"
    THEN Plain({XAtom("dh",
                      IF secretKey < publicKey.id
                        THEN secretKey ELSE publicKey.id,
                      IF secretKey < publicKey.id
                        THEN publicKey.id ELSE secretKey)})
    ELSE Plain({XAtom("sm", secretKey, publicKey.id)})

\* performX3DH (part_003:334-356): DH1 || DH2 || DH3.
performX3DH(identityKey, ephemeralKey, remoteIdentityKey, remotePreKey) ==
  <<before(remotePreKey, identityKey.privateKey),
    before(remoteIdentityKey, ephemeralKey.privateKey),
    before(remotePreKey, ephemeralKey.privateKey)>>

\* deriveKey (part_003:361-384): 256 bits of HKDF-SHA256 with a zero salt.
deriveKey(inputKey, info) ==
  [x |-> {}, src |-> inputKey, info |-> info, part |-> 1]

\* nacl.box.keyPair() of the web client.
BoxKeyPair(n) == [publicKey |-> [curve |-> "x25519", id |-> n],
                  privateKey |-> n]

\* createPreKeyBundle (part_003:155-177) of a web client with the identity
\* key pair identity: a signed pre-key and a one-time pre-key made on the
\* spot, both with key id 1.
createPreKeyBundle(identity, registrationId, e) ==
  LET signedPreKey == BoxKeyPair(Atom(e, 1))
      preKey == BoxKeyPair(Atom(e, 2))
  IN  [registrationId |-> registrationId, deviceId |-> 1,
       identityKey |-> identity.publicKey,
       signedPreKey |->
         [keyId |-> 1, publicKey |-> signedPreKey.publicKey,
          signature |-> [alg |-> "ed25519", seed |-> identity.privateKey,
                         data |-> signedPreKey.publicKey]],
       hasPreKey |-> TRUE,
       preKey |-> [keyId |-> 1, publicKey |-> preKey.publicKey]]

\* establishSession(remoteHash, remoteBundle) of the web client
\* (part_003:260-302).
webEstablishSession(w, remoteHash, remoteBundle, e) ==
  IF w.identityKeyPair = NoKeyPair
    THEN [web |-> w, error |-> "Identity not initialized"]
  ELSE IF ~Ed25519Verify(remoteBundle.identityKey,
                         remoteBundle.signedPreKey.publicKey,
                         remoteBundle.signedPreKey.signature)
    THEN [web |-> w, error |-> "Invalid pre-key signature"]
  ELSE
    LET ephemeralKey == BoxKeyPair(Atom(e, 1))
        sharedSecret == performX3DH(w.identityKeyPair, ephemeralKey,
                                    remoteBundle.identityKey,
                                    remoteBundle.signedPreKey.publicKey)
        rootKey == deriveKey(sharedSecret, "RootKey")
        chainKey == deriveKey(sharedSecret, "ChainKey")
    IN  [web |-> [w EXCEPT !.sessions[remoteHash] =
                    [remoteIdentityKey |-> remoteBundle.identityKey,
                     localIdentityKeyPair |-> w.identityKeyPair,
                     rootKey |-> rootKey, chainKey |-> chainKey,
                     messageNumber |-> 0, previousCounter |-> 0]],
         error |-> ""]

\* The bundles the server hands to the web client for a remote web user:
\* what that user's createPreKeyBundle returned, the same after its
\* one-time pre-key was taken, and a tampered one.
WebBundles ==
  LET bundle == createPreKeyBundle(WebKeyPair(Atom(-1, 1)), 16383, -2)
  IN  {bundle, WithoutPreKey(bundle), Tampered(bundle)}

\* Two installations with accounts and no sessions, and a web client with
\* an identity.
InitSession ==
  /\ naclLoaded \in BOOLEAN
  /\ subtleAvailable \in BOOLEAN
  /\ LET a == createAccount(Constructed, EmptyKeychain, 1, <<255, 255>>)
         b == createAccount(Constructed, EmptyKeychain, 2, <<255, 255>>)
     IN  /\ mem = [s \in Svc |-> IF s = "A" THEN a.mem ELSE b.mem]
         /\ keychain = [s \in Svc |-> IF s = "A" THEN a.kc ELSE b.kc]
  /\ fresh = 3
  /\ wire = [d \in Dirs |-> <<>>]
  /\ sent = [d \in Dirs |-> <<>>]
  /\ received = [d \in Dirs |-> <<>>]
  /\ ratchetLog = [d \in Dirs |-> NoLog]
  /\ handedOut = {}
  /\ consumed = [s \in Svc |-> {}]
  /\ wiped = [s \in Svc |-> FALSE]
  /\ preWipe = [s \in Svc |-> {}]
  /\ calls = <<>>
  /\ web = [WebConstructed EXCEPT
              !.identityKeyPair = WebKeyPair(Atom(3, 1)),
              !.registrationId = 16383,
              !.store = [identity |-> Stored(WebKeyPair(Atom(3, 1))),
                         userHash |-> Stored(ToDecimal(16383))],
              !.generated = 1,
              !.explicit = TRUE]
  /\ trial = NoTrial

\* establishSession(p, bundle) on installation s, run to completion.
MobileEstablishSession(s, p) ==
  /\ fresh < 3 + MaxSessions
  /\ p # s
  /\ \E bundle \in BundlesOf(p) :
       LET r == establishSession(mem[s], keychain[s], p, bundle, fresh + 1)
       IN  /\ mem' = [mem EXCEPT ![s] = r.mem]
           /\ keychain' = [keychain EXCEPT ![s] = r.kc]
           /\ trial' = [op |-> "establishSession",
                        args |-> <<s, p, bundle, fresh + 1>>,
                        results |-> <<r.error>>]
           /\ fresh' = IF r.error = "" THEN fresh + 1 ELSE fresh
  /\ UNCHANGED <<build, messaging, pools, wipes, calls, web>>

\* establishSession(p, bundle) on the web client, run to completion (its
\* awaits are the two key derivations, which touch no field).
WebEstablishSession(p) ==
  /\ fresh < 3 + MaxSessions
  /\ \E bundle \in WebBundles :
       LET r == webEstablishSession(web, p, bundle, fresh + 1)
       IN  /\ web' = r.web
           /\ trial' = [op |-> "establishSession",
                        args |-> <<"web", p, bundle, fresh + 1>>,
                        results |-> <<r.error>>]
           /\ fresh' = IF r.error = "" THEN fresh + 1 ELSE fresh
  /\ UNCHANGED <<build, mobile>>

NextSession ==
  \/ \E s \in Svc, p \in Peers : MobileEstablishSession(s, p)
  \/ \E p \in Peers : WebEstablishSession(p)

SpecSession == InitSession /\ [][NextSession]_vars

\* The session the last establishSession call stored under its peer id: on
\* the installations the persisted one, on the web client the one in the
\* session map.
StoredSession ==
  IF trial.args[1] = "web"
    THEN web.sessions[trial.args[2]]
    ELSE keychain[trial.args[1]].sessions.value[trial.args[2]]

\* DH1 || DH2 || DH3, with DH4 appended exactly when the bundle of the last
\* establishSession call carries a one-time pre-key.
ExpectedSecrets ==
  LET bundle == trial.args[3]
      onWeb == trial.args[1] = "web"
      dh(privateKey, publicKey) ==
        IF onWeb THEN before(publicKey, privateKey)
                 ELSE agree(privateKey, publicKey)
      identity == IF onWeb THEN web.identityKeyPair.privateKey
                  ELSE mem[trial.args[1]].identityKeyPair.privateKey
      ephemeral == Atom(trial.args[4], 1)
      three == <<dh(identity, bundle.signedPreKey.publicKey),
                 dh(ephemeral, bundle.identityKey),
                 dh(ephemeral, bundle.signedPreKey.publicKey)>>
  IN  IF bundle.hasPreKey
        THEN Append(three, dh(ephemeral, bundle.preKey.publicKey))
        ELSE three

\* The 64 bytes the client's HKDF gives for ikm and info, as two halves.
OneOutput(ikm, info) ==
  IF trial.args[1] = "web"
    THEN [k \in 1..2 |-> [x |-> {}, src |-> ikm, info |-> info, part |-> k]]
    ELSE hkdf(ikm, info, 2)

HkdfInfos == {"PRISM_X3DH_v1", "RootKey", "ChainKey"}

\* C28: after a successful establishSession(peerId, bundle) the session
\* stored under peerId has remoteIdentityKey = bundle.identityKey,
\* messageNumber = 0, previousCounter = 0, and its rootKey and chainKey are
\* the first and the last 32 bytes of one HKDF output over DH1, DH2, DH3,
\* with DH4 appended exactly when the bundle carries a one-time pre-key.
C28_SessionFromOneHkdfOutput ==
  (trial.op = "establishSession" /\ trial.results = <<"">>) =>
    /\ StoredSession.remoteIdentityKey = trial.args[3].identityKey
    /\ StoredSession.messageNumber = 0
    /\ StoredSession.previousCounter = 0
    /\ \E info \in HkdfInfos :
         LET output == OneOutput(ExpectedSecrets, info)
         IN  /\ StoredSession.rootKey = output[1]
             /\ StoredSession.chainKey = output[2]

-----------------------------------------------------------------------------
(* Sessions with two peers side by side (SignalProtocol.ts:689-700,         *)
(* 708-783, 847-850): every write of a session saves the whole map.         *)

MaxFrameOps == 1    \* calls of one installation that draw randomness or
                    \* read a message

\* A message the relay delivers that no session of the receiver sealed.
StrayMessage ==
  LET sealed == encrypt(Plain({XAtom("priv", -9, 0)}), <<104, 105>>,
                        Atom(-9, 1))
  IN  [type |-> "message", registrationId |-> 7, deviceId |-> 1,
       ciphertext |-> <<sealed.nonce, sealed.ciphertext>>]

\* A and B as in the ratchet specification; A holds a session with the
\* third peer as well.
InitFrame ==
  /\ naclLoaded \in BOOLEAN
  /\ subtleAvailable \in BOOLEAN
  /\ \E chainKey \in SharedChainKeys :
       LET a == createAccount(Constructed, EmptyKeychain, 1, <<255, 255>>)
           b == createAccount(Constructed, EmptyKeychain, 2, <<255, 255>>)
           sa == [NoSessions EXCEPT
                    !["B"] = PairedSession(a.mem.identityKeyPair,
                                           b.mem.identityKeyPair.publicKey,
                                           chainKey),
                    ![Mallory] = PairedSession(a.mem.identityKeyPair,
                                               MalloryBundle.identityKey,
                                               NextChainKey(chainKey))]
           sb == [NoSessions EXCEPT !["A"] =
                    PairedSession(b.mem.identityKeyPair,
                                  a.mem.identityKeyPair.publicKey, chainKey)]
       IN  /\ mem = [s \in Svc |->
                       IF s = "A" THEN [a.mem EXCEPT !.sessions = sa]
                                  ELSE [b.mem EXCEPT !.sessions = sb]]
           /\ keychain = [s \in Svc |->
                            IF s = "A"
                              THEN saveToKeychain(a.kc, "sessions", sa)
                              ELSE saveToKeychain(b.kc, "sessions", sb)]
  /\ fresh = 2
  /\ wire = [d \in Dirs |-> <<>>]
  /\ sent = [d \in Dirs |-> <<>>]
  /\ received = [d \in Dirs |-> <<>>]
  /\ ratchetLog = [d \in Dirs |-> NoLog]
  /\ handedOut = {}
  /\ consumed = [s \in Svc |-> {}]
  /\ wiped = [s \in Svc |-> FALSE]
  /\ preWipe = [s \in Svc |-> {}]
  /\ calls = <<>>
  /\ web = WebConstructed
  /\ trial = NoTrial

\* What the call op of installation s for peer p found when it started.
Started(op, s, p) ==
  [op |-> op, args |-> <<s, p>>, results |-> <<mem[s], keychain[s]>>]

EstablishWith(s, p) ==
  /\ fresh < 2 + MaxFrameOps
  /\ p # s
  /\ \E bundle \in BundlesOf(p) :
       LET r == establishSession(mem[s], keychain[s], p, bundle, fresh + 1)
       IN  /\ mem' = [mem EXCEPT ![s] = r.mem]
           /\ keychain' = [keychain EXCEPT ![s] = r.kc]
           /\ fresh' = IF r.error = "" THEN fresh + 1 ELSE fresh
  /\ trial' = Started("establishSession", s, p)
  /\ UNCHANGED <<build, messaging, pools, wipes, calls, web>>

EncryptFor(s, p) ==
  /\ fresh < 2 + MaxFrameOps
  /\ p # s
  /\ LET r == encryptMessage(mem[s], keychain[s], p, <<104, 105>>, fresh + 1)
     IN  /\ mem' = [mem EXCEPT ![s] = r.mem]
         /\ keychain' = [keychain EXCEPT ![s] = r.kc]
         /\ wire' = IF r.error = ""
                      THEN [wire EXCEPT ![<<s, p>>] = Append(@, r.message)]
                      ELSE wire
         /\ fresh' = IF r.error = "" THEN fresh + 1 ELSE fresh
  /\ trial' = Started("encryptMessage", s, p)
  /\ UNCHANGED <<build, sent, received, ratchetLog, pools, wipes, calls, web>>

\* The messages the relay holds for s from p.
HeldFor(s, p) ==
  IF p \in Svc THEN {wire[<<p, s>>][i] : i \in 1..Len(wire[<<p, s>>])}
              ELSE {}

\* decryptMessage(p, message) by s for a message the relay holds for it,
\* or for a stray one.  received[<<s, p>>] lists what these calls of s gave.
DecryptFrom(s, p) ==
  /\ Len(received[<<s, p>>]) < MaxFrameOps
  /\ p # s
  /\ \E message \in HeldFor(s, p) \cup {StrayMessage} :
       LET r == decryptMessage(mem[s], keychain[s], p, message)
       IN  /\ mem' = [mem EXCEPT ![s] = r.mem]
           /\ keychain' = [keychain EXCEPT ![s] = r.kc]
           /\ received' = [received EXCEPT ![<<s, p>>] =
                Append(@, IF r.error = "" THEN r.plaintext ELSE FailedText)]
  /\ trial' = Started("decryptMessage", s, p)
  /\ UNCHANGED <<build, fresh, wire, sent, ratchetLog, pools, wipes, calls, web>>

DeleteSessionOf(s, p) ==
  /\ p # s
  /\ LET r == deleteSession(mem[s], keychain[s], p)
     IN  /\ mem' = [mem EXCEPT ![s] = r.mem]
         /\ keychain' = [keychain EXCEPT ![s] = r.kc]
  /\ trial' = Started("deleteSession", s, p)
  /\ UNCHANGED <<build, fresh, messaging, pools, wipes, calls, web>>

NextFrame ==
  \/ \E p \in Peers : EstablishWith("A", p)
  \/ \E p \in Peers : EncryptFor("A", p)
  \/ EncryptFor("B", "A")
  \/ \E p \in Peers : DecryptFrom("A", p)
  \/ \E p \in Peers : DeleteSessionOf("A", p)

SpecFrame == InitFrame /\ [][NextFrame]_vars

\* The session maps and the account of the caller of the last call, as the
\* call found them and as it left them.
FrameBefore == [mem |-> trial.results[1], kc |-> trial.results[2]]
FrameAfter == [mem |-> mem[trial.args[1]], kc |-> keychain[trial.args[1]]]

\* The session persisted for peer q in Keychain kc (none when the entry is
\* absent).
Persisted(kc, q) ==
  IF kc.sessions.present THEN kc.sessions.value[q] ELSE NoSessionState

\* The last call changed neither the identity key pair, the registration
\* id, the signed pre-key nor the pre-key pool, in memory or in the Keychain.
AccountUntouched ==
  /\ FrameAfter.mem.identityKeyPair = FrameBefore.mem.identityKeyPair
  /\ FrameAfter.mem.registrationId = FrameBefore.mem.registrationId
  /\ FrameAfter.mem.signedPreKey = FrameBefore.mem.signedPreKey
  /\ FrameAfter.mem.preKeys = FrameBefore.mem.preKeys
  /\ FrameAfter.kc.identity_key_pair = FrameBefore.kc.identity_key_pair
  /\ FrameAfter.kc.registration_id = FrameBefore.kc.registration_id
  /\ FrameAfter.kc.signed_prekey = FrameBefore.kc.signed_prekey
  /\ FrameAfter.kc.prekeys = FrameBefore.kc.prekeys

\* C29: establishSession, encryptMessage, decryptMessage and deleteSession
\* for peer p leave the stored session of every other peer q as they found
\* it, in the session map and in the Keychain, and change neither the
\* identity key pair, the registration id, the signed pre-key nor the
\* pre-key pool.
C29_OtherPeersUntouched ==
  trial.op # "" =>
    /\ \A q \in Peers \ {trial.args[2]} :
         /\ FrameAfter.mem.sessions[q] = FrameBefore.mem.sessions[q]
         /\ Persisted(FrameAfter.kc, q) = Persisted(FrameBefore.kc, q)
    /\ AccountUntouched

-----------------------------------------------------------------------------
(* encryptMessage, a crash, and initialize (SignalProtocol.ts:718-746,      *)
(* 499-507): what the restarted process restores                            *)

MaxCrashes == 1     \* crashes in one behaviour

\* The process of s dies: its fields and its calls in progress are gone,
\* the Keychain stays.  A write that was issued is taken as done.
Crash(s) ==
  /\ ~(trial.op \in {"crash", "initialize"} /\ trial.args[1] >= MaxCrashes)
  /\ mem' = [mem EXCEPT ![s] = Constructed]
  /\ calls' = <<>>
  /\ trial' = [op |-> "crash",
               args |-> <<IF trial.op = "" THEN 1 ELSE trial.args[1] + 1>>,
               results |-> <<>>]
  /\ UNCHANGED <<build, keychain, fresh, messaging, pools, wipes, web>>

\* The restarted process calls initialize().
InitializeRestarted(s) ==
  /\ trial.op = "crash"
  /\ mem' = [mem EXCEPT ![s] = initialize(mem[s], keychain[s])]
  /\ trial' = [trial EXCEPT !.op = "initialize"]
  /\ UNCHANGED <<build, keychain, fresh, messaging, pools, wipes, calls, web>>

NextCrash ==
  \/ BeginEncrypt("A", "B")
  \/ \E i \in 1..MaxCalls : AwaitMessageKey(i)
  \/ \E i \in 1..MaxCalls : AwaitChainKey(i)
  \/ \E i \in 1..MaxCalls : AwaitEncrypt(i)
  \/ \E i \in 1..MaxCalls : AwaitSave(i)
  \/ Crash("A")
  \/ InitializeRestarted("A")

SpecCrash == InitRatchet /\ [][NextCrash]_vars

\* The message keys of the ciphertexts encryptMessage has returned to the
\* caller of s for peer p.
ReturnedUnder(s, p) ==
  {wire[<<s, p>>][i].ciphertext[2].key : i \in 1..Len(wire[<<s, p>>])}

\* C30: when the process has crashed and initialize() has restored the
\* sessions, the restored chain key for a peer is not one whose message key
\* already protected a ciphertext that encryptMessage returned to the
\* caller.
C30_RestoredChainKeyUnused ==
  (trial.op = "initialize" /\ calls = <<>>) =>
    \A p \in Peers :
      mem["A"].sessions[p] # NoSessionState =>
        MessageKeyOf(mem["A"].sessions[p].chainKey) \notin ReturnedUnder("A", p)
=============================================================================
